---- MODULE Spec2Model ----
(***************************************************************************)
(* Execution-and-output pipeline of demo-webr-ggplot.                      *)
(*                                                                         *)
(* One interpreter session (the R global workspace) is shared by           *)
(*   - the Executor pipeline: useWebR.executeCode -> Executor.execute ->   *)
(*     OutputProcessor / Serializer (webr/runtime);                        *)
(*   - the wrapped pipeline: createExecuteCodeFunction with the            *)
(*     Error-Context Wrapper (composables/useWebRSerializaton.ts);         *)
(*   - direct calls of the Serializer methods.                             *)
(* A session runs one of the three (variable pipeline).                    *)
(*                                                                         *)
(* Every `await` of an interpreter call is one step: the call takes        *)
(* effect in the workspace, returns or throws, and the continuation runs   *)
(* up to the next await.  Texts are sequences of tokens; a token stands    *)
(* for a fixed piece of text and TokLen gives its number of characters.    *)
(***************************************************************************)
EXTENDS Integers, Sequences, FiniteSets, TLC

(* ------------------------------ bounds --------------------------------- *)
MaxSignals == 2
MaxImages == 1
MaxClock == 2
MaxFaults == 1
MaxLog == 1
MaxCalls == 3
MaxInits == 2
MaxInstalls == 2

(* ------------------------------- texts --------------------------------- *)
NL == "\n"
EscapedNL == "\\n"
InternalPrefix == "M: "
WarningSeparator == "\n\nIn addition: Warning message:\n"
LongCall == "Error in a_function_with_a_long_name(argument): "
ErrorName == "Error: "
UnableToDisplay == "[Unable to display output]"
UnableToExtract == "[Unable to extract condition message]"
NotSerialized == "[Object could not be serialized]"
NoSummary == "[Could not generate summary]"
NoStructure == "[Could not get structure]"

TokLen(tok) ==
  CASE tok = NL -> 1
    [] tok = " " -> 1
    [] tok = EscapedNL -> 2
    [] tok = InternalPrefix -> 3
    [] tok = ErrorName -> 7
    [] tok = WarningSeparator -> 33
    [] tok = LongCall -> 48
    [] OTHER -> 2

RECURSIVE TextLen(_)
TextLen(text) == IF text = <<>> THEN 0 ELSE TokLen(Head(text)) + TextLen(Tail(text))

Contains(text, tok) == \E i \in 1..Len(text) : text[i] = tok

IsSpace(tok) == tok \in {" ", NL}

\* String.prototype.trim() leaves something
TrimNonEmpty(text) == \E i \in 1..Len(text) : ~IsSpace(text[i])

\* Array.prototype.join
RECURSIVE Join(_, _)
Join(lines, sep) ==
  IF lines = <<>> THEN <<>>
  ELSE IF Len(lines) = 1 THEN <<lines[1]>>
  ELSE <<lines[1], sep>> \o Join(Tail(lines), sep)

\* a mutant of cleanErrorMessage: the prefix is kept
cleanErrorMessage_keep(message) == message

\* utils/errors.ts cleanErrorMessage
cleanErrorMessage(message) ==
  IF Len(message) >= 1 /\ message[1] = InternalPrefix THEN Tail(message) ELSE message

(* ------------------------- interpreter objects ------------------------- *)
Unbound == "unbound"
NoObj == "none"

Conditions == {"w1", "w2", "e1", "m1"}

\* RObject.toJs(): a character vector, another JS shape, or a refusal
ToJs(o) ==
  CASE o = "chr" -> [kind |-> "character", values |-> <<"A1", "A2">>]
    [] o \in {"env", "gg", "badprint"} -> [kind |-> "throws", values |-> <<>>]
    [] OTHER -> [kind |-> "other", values |-> <<>>]

\* RObject.type()
RType(o) ==
  CASE o = "nul" -> "null"
    [] o = "fn" -> "closure"
    [] o = "chr" -> "character"
    [] o = "num" -> "double"
    [] o = "env" -> "environment"
    [] OTHER -> "list"

ConditionMessage(o) ==
  CASE o = "w1" -> "W1"
    [] o = "w2" -> "W2"
    [] o = "e1" -> "E1"
    [] o = "m1" -> "M1"
    [] OTHER -> "??"

\* inherits(x, c("gg", "ggplot", "recordedplot", "trellis", "grob"))
InheritsPlot(o) == o = "gg"

\* capture.output(print(x)): the printed lines, or an R error
PrintLines(o) ==
  CASE o = "w1" -> [ok |-> TRUE, lines |-> <<"<simpleWarning: W1>">>]
    [] o = "w2" -> [ok |-> TRUE, lines |-> <<"<simpleWarning: W2>">>]
    [] o = "e1" -> [ok |-> TRUE, lines |-> <<"<simpleError: E1>">>]
    [] o = "m1" -> [ok |-> TRUE, lines |-> <<"<simpleMessage: M1>">>]
    [] o = "chr" -> [ok |-> TRUE, lines |-> <<"[1] A1 A2">>]
    [] o = "env" -> [ok |-> TRUE, lines |-> <<"<environment>">>]
    [] o = "num" -> [ok |-> TRUE, lines |-> <<"[1] 2">>]
    [] o = "df" -> [ok |-> TRUE, lines |-> <<"L1", "L2">>]
    [] o = "nul" -> [ok |-> TRUE, lines |-> <<"NULL">>]
    [] o = "fn" -> [ok |-> TRUE, lines |-> <<"function ()">>]
    [] o = "gg" -> [ok |-> TRUE, lines |-> <<"P1">>]
    [] o = "quiet" -> [ok |-> TRUE, lines |-> <<>>]
    [] o = "blank" -> [ok |-> TRUE, lines |-> <<" ">>]
    [] OTHER -> [ok |-> FALSE, lines |-> <<>>]

\* capture.output(summary(x)) and capture.output(str(x))
InspectLines(cmd, o) ==
  IF ~PrintLines(o).ok THEN PrintLines(o)
  ELSE IF cmd = "summary" THEN [ok |-> TRUE, lines |-> <<"Length Class Mode">> \o PrintLines(o).lines]
  ELSE IF cmd = "str" THEN [ok |-> TRUE, lines |-> IF PrintLines(o).lines = <<>> THEN <<>> ELSE <<"str">>]
  ELSE PrintLines(o)

\* the class branch evaluated by extractConditionMessage
ConditionBranch(o) ==
  IF o = "chr" THEN [ok |-> TRUE, lines |-> <<"A1", "A2">>]
  ELSE IF o \in Conditions THEN [ok |-> TRUE, lines |-> <<ConditionMessage(o)>>]
  ELSE IF o = "num" THEN [ok |-> TRUE, lines |-> <<"2">>]
  ELSE IF o = "quiet" THEN [ok |-> TRUE, lines |-> <<>>]
  ELSE [ok |-> FALSE, lines |-> <<>>]

(* ------------------------- the global workspace ------------------------ *)
SerializerTemp == <<".__serializer_temp__", 0>>
CheckPlot == <<".__check_plot__", 0>>
TempObj == <<".__temp_obj__", 0>>
UserObj == <<"obj", 0>>
ConditionTemp(ts) == <<".__condition_", ts>>
\* ConditionTemp(0) stands for the names made by earlier requests: Date.now() has moved on
Names == {SerializerTemp, CheckPlot, TempObj, UserObj} \cup {ConditionTemp(ts) : ts \in 0..MaxClock}

\* a mutant of Bind: a name that is already bound keeps its value
Bind_ifAbsent(env, name, o) == IF env[name] = Unbound THEN [env EXCEPT ![name] = o] ELSE env

\* globalEnv.bind(name, object)
Bind(env, name, o) == [env EXCEPT ![name] = o]
Remove(env, name) == [env EXCEPT ![name] = Unbound]

(* ------------------------------ variables ------------------------------ *)
VARIABLES
  pipeline,     \* "executor", "wrapped" or "serializer"
  globalEnv,    \* the R global workspace: name -> object or Unbound
  reserved,     \* the two reserved globals of the Error-Context Wrapper
  clock,        \* Date.now()
  faults,       \* interpreter faults so far
  messages,     \* the session log (useWebR messages)
  isExecuting,  \* useWebR isExecuting
  pc,           \* position of the request in flight
  req,          \* the request in flight
  tasks,        \* the extractions started by processMultiple, and task 0
  outcome,      \* what Executor.execute handed to its caller
  failedRemovals, \* the temporary names whose latest removal command failed, or was
                 \* not reached because the conversion before it threw ("tempobj toJs")
  currentCsvData, \* App.vue currentCsvData is not null
  calls,        \* App.vue: the useWebR.executeCode calls that await executor.execute,
                \* each with what triggered it, in the order they started
  code,         \* App.vue code: the text in the editor
  lastExecutedCode, \* App.vue lastExecutedCode
  showConsole,  \* ConsoleOutput showConsole
  instance,     \* WebRInstance: webR and shelter are present or null; the position of
                \* each initialize call
  packages,     \* PackageManager: installed, versions, its install calls in flight, and
                \* the packages in the R library
  useWebR       \* useWebR: installedPackages, packageVersions and the position of
                \* initializeWebR in its installation of the essential packages

vars == <<pipeline, globalEnv, reserved, clock, faults, messages, isExecuting, pc, req, tasks, outcome,
         failedRemovals, currentCsvData, calls, code, lastExecutedCode, showConsole,
         instance, packages, useWebR>>

TaskIds == 0..MaxSignals
MainTask == 0

IdleTask == [pc |-> "idle", obj |-> NoObj, type |-> "none", ctx |-> "none", cmd |-> "none",
             tmp |-> 0, val |-> <<>>, failed |-> FALSE, content |-> <<>>]

NoReserved == [warnings |-> [bound |-> FALSE, val |-> <<>>],
               complete |-> [bound |-> FALSE, val |-> <<>>]]

NoOutcome == [status |-> "none", outputs |-> <<>>, plots |-> <<>>, duration |-> 0,
              success |-> FALSE]

\* new WebRInstance(): webR = null, shelter = null, and no initialize call yet
NoInstance == [webR |-> FALSE, shelter |-> FALSE, initialize |-> [c \in 1..MaxInits |-> "none"]]

\* PackageManager.ESSENTIALS
ESSENTIALS == <<"ggplot2", "dplyr", "ggrepel">>
PackageNames == {ESSENTIALS[k] : k \in 1..Len(ESSENTIALS)}

\* an install call that was not made, or whose result was consumed
NoInstall == [pc |-> "none", name |-> "", version |-> ""]

\* new PackageManager(webR): installed and versions are empty ("" is no entry of the Map)
NoPackages == [installed |-> {}, versions |-> [p \in PackageNames |-> ""], library |-> {},
               install |-> [c \in 1..MaxInstalls |-> NoInstall]]

\* useWebR(): installedPackages and packageVersions are empty
NoUseWebR == [pc |-> "none", i |-> 1, results |-> <<>>, installedPackages |-> {},
              packageVersions |-> [p \in PackageNames |-> ""]]

NoReq == [signals |-> <<>>, raised |-> <<>>, err |-> NoObj, images |-> <<>>, result |-> NoObj,
          outputs |-> <<>>, plots |-> <<>>, order |-> <<>>, start |-> 0, base |-> 0, i |-> 0,
          captured |-> "none", thrown |-> <<>>, final |-> <<>>, serialized |-> <<>>,
          verdict |-> FALSE, visible |-> FALSE,
          call |-> <<>>, prev |-> [call |-> <<>>, status |-> "none", text |-> <<>>]]

Init ==
  /\ pipeline \in {"executor", "wrapped", "serializer"}
  /\ globalEnv = [n \in Names |-> Unbound]
  /\ reserved = NoReserved
  /\ clock = 1
  /\ faults = 0
  /\ messages = <<>>
  /\ isExecuting = FALSE
  /\ pc = "idle"
  /\ req = NoReq
  /\ tasks = [t \in TaskIds |-> IdleTask]
  /\ outcome = NoOutcome
  /\ failedRemovals = {}
  /\ currentCsvData = FALSE
  /\ calls = <<>>
  /\ code = "ex"
  /\ lastExecutedCode = ""
  /\ showConsole = FALSE
  /\ instance = NoInstance
  /\ packages = NoPackages
  /\ useWebR = NoUseWebR

\* an interpreter call returns (FALSE) or throws for a reason of its own (TRUE)
Fault == IF faults < MaxFaults THEN BOOLEAN ELSE {FALSE}
Count(f) == IF f THEN 1 ELSE 0
\* performance.now() and Date.now() advance or not between two readings
Now == IF clock < MaxClock THEN {clock, clock + 1} ELSE {clock}
FaultTexts == {<<"F1">>, <<InternalPrefix, "F1">>, <<InternalPrefix, InternalPrefix, "F1">>}

(* ------------------------------ Serializer ----------------------------- *)
DirectObjects == {"num", "df", "quiet", "badprint"}

Placeholder(cmd) ==
  CASE cmd = "summary" -> NoSummary
    [] cmd = "str" -> NoStructure
    [] OTHER -> NotSerialized

ErrorContext(cmd) ==
  CASE cmd = "print" -> "Serialization failed"
    [] cmd = "printWithOptions" -> "Serialization with options failed"
    [] cmd = "summary" -> "Summary generation failed"
    [] OTHER -> "Structure inspection failed"

\* utils/errors.ts withErrorHandling: the text of the WebRError it throws
withErrorHandling(context, errorText) == <<context, ": ">> \o cleanErrorMessage(errorText)

\* utils/r-converters.ts toCharacterVector of a character vector
toCharacterVector(lines) == Join(lines, NL)

StartSerializer(cmd, o) ==
  /\ pipeline = "serializer"
  /\ pc = "idle"
  /\ pc' = "serialize"
  /\ tasks' = [tasks EXCEPT ![MainTask] =
                 [IdleTask EXCEPT !.pc = "ser_bind", !.obj = o, !.cmd = cmd, !.ctx = "direct"]]
  /\ req' = [NoReq EXCEPT !.prev = [call |-> req.call, status |-> outcome.status,
                                    text |-> req.serialized]]
  /\ outcome' = NoOutcome
  /\ UNCHANGED <<packages, useWebR, instance, code, lastExecutedCode, showConsole, currentCsvData, calls, pipeline, globalEnv, reserved, clock, faults, messages, isExecuting, failedRemovals>>

\* Serializer.serialize, called by the application
serialize == \E o \in DirectObjects : StartSerializer("print", o)

serializeWithOptions == \E o \in DirectObjects : StartSerializer("printWithOptions", o)

summarize == \E o \in DirectObjects : StartSerializer("summary", o)

structure == \E o \in DirectObjects : StartSerializer("str", o)

\* await this.webR.objs.globalEnv.bind(tempVar, rObject)
serialize_bind(t) ==
  /\ tasks[t].pc = "ser_bind"
  /\ \E fault \in Fault :
       /\ faults' = faults + Count(fault)
       /\ IF fault
          THEN /\ tasks' = [tasks EXCEPT ![t].pc = "ser_cleanup", ![t].failed = TRUE,
                                         ![t].val = <<"F1">>]
               /\ UNCHANGED globalEnv
          ELSE /\ tasks' = [tasks EXCEPT ![t].pc = "ser_eval"]
               /\ globalEnv' = Bind(globalEnv, SerializerTemp, tasks[t].obj)
  /\ UNCHANGED <<packages, useWebR, instance, code, lastExecutedCode, showConsole, currentCsvData, calls, pipeline, reserved, clock, messages, isExecuting, pc, req, outcome, failedRemovals>>

\* await this.webR.evalR(`capture.output(print(${tempVar}))`) and toCharacterVector(result)
serialize_evalR(t) ==
  /\ tasks[t].pc = "ser_eval"
  /\ \E fault \in Fault :
       LET o == globalEnv[SerializerTemp]
           r == IF o = Unbound THEN [ok |-> FALSE, lines |-> <<>>]
                ELSE InspectLines(tasks[t].cmd, o)
           output == toCharacterVector(r.lines)
       IN /\ faults' = faults + Count(fault)
          /\ IF fault \/ ~r.ok
             THEN tasks' = [tasks EXCEPT ![t].pc = "ser_cleanup", ![t].failed = TRUE,
                                        ![t].val = IF fault THEN <<"F1">> ELSE <<"R1">>]
             ELSE tasks' = [tasks EXCEPT ![t].pc = "ser_cleanup",
                              ![t].val = IF output = <<>> THEN <<Placeholder(tasks[t].cmd)>>
                                         ELSE output]
  /\ UNCHANGED <<packages, useWebR, instance, code, lastExecutedCode, showConsole, currentCsvData, calls, pipeline, globalEnv, reserved, clock, messages, isExecuting, pc, req, outcome, failedRemovals>>

\* a mutant of cleanupTempVarEffect: the removal is skipped when the try body threw
cleanupTempVarEffect_onSuccessOnly(env, failed, fault) ==
  IF fault \/ failed THEN env ELSE Remove(env, SerializerTemp)

\* Serializer.cleanupTempVar: if (exists(name)) rm(name), failures swallowed
cleanupTempVarEffect(env, failed, fault) ==
  IF fault THEN env ELSE Remove(env, SerializerTemp)

\* what the Serializer method hands to its caller after the finally block
SerializerReturn(tk) ==
  [status |-> IF tk.failed THEN "threw" ELSE "returned",
   text |-> IF tk.failed THEN withErrorHandling(ErrorContext(tk.cmd), tk.val) ELSE tk.val]

(* ------------------------ OutputProcessor.process ---------------------- *)
ConditionKinds == {"message", "warning", "error"}

\* withAutoprint: true: a visible final value is printed as at the R console, and the
\* printed line is captured with the streams; the value is handed back as result.result
AutoprintLine(o) == [type |-> "stdout", tag |-> "string", v |-> PrintLines(o).lines[1]]

\* the final value was visible: its print is the last thing the code did (a number
\* prints one line, a plot object draws an image)
Autoprinted(sigs, imgs, r) ==
  CASE r = "num" -> sigs # <<>> /\ sigs[Len(sigs)] = AutoprintLine("num")
    [] r = "gg" -> imgs # <<>>
    [] OTHER -> FALSE

\* the signals the capture facility can hand back: { type, data }
SignalShapes ==
  { [type |-> "stdout", tag |-> "string", v |-> "O1"],
    AutoprintLine("num"),
    [type |-> "absent", tag |-> "absent", v |-> ""],
    [type |-> "message", tag |-> "object", v |-> "chr"],
    [type |-> "warning", tag |-> "object", v |-> "w1"],
    [type |-> "error", tag |-> "object", v |-> "e1"],
    [type |-> "other", tag |-> "object", v |-> "env"] }

SignalSeqs == UNION {[1..n -> SignalShapes] : n \in 0..MaxSignals}
ResultObjects == {"num", "gg", "nul", "blank", "quiet"}
AllImages == <<"img1", "img2", "img3">>
ImageSeqs == {SubSeq(AllImages, 1, n) : n \in 0..MaxImages}

\* the members every object literal inherits from Object.prototype; a lookup by one of
\* these names finds the inherited member, which is not undefined
ObjectPrototype == {"constructor", "toString"}
InheritedMember == "[native code]"

\* OutputProcessor.mapOutputType: typeMap[webrType] || 'info'
mapOutputType(webrType) ==
  IF webrType = "absent" THEN "info"
  ELSE CASE webrType = "stdout" -> "stdout"
         [] webrType = "stderr" -> "stderr"
         [] webrType = "message" -> "info"
         [] webrType = "warning" -> "warning"
         [] webrType = "error" -> "error"
         [] webrType \in ObjectPrototype -> InheritedMember
         [] OTHER -> "info"

\* OutputProcessor.extractContent up to its first await
StartProcess(sig) ==
  IF sig.tag = "string"
  THEN [IdleTask EXCEPT !.pc = "done", !.type = sig.type, !.content = <<sig.v>>]
  ELSE IF sig.tag = "absent"
  THEN [IdleTask EXCEPT !.pc = "done", !.type = sig.type]
  ELSE [IdleTask EXCEPT !.pc = "toJs", !.type = sig.type, !.obj = sig.v,
                        !.ctx = "extract", !.cmd = "print"]

Extractions == 1..MaxSignals

\* the order in which the extractions complete
Completed(order, t, tk) == IF tk.pc = "done" THEN Append(order, t) ELSE order

RECURSIVE StartOrder(_, _)
StartOrder(sigs, i) ==
  IF i > Len(sigs) THEN <<>>
  ELSE (IF sigs[i].tag = "object" THEN <<>> ELSE <<i>>) \o StartOrder(sigs, i + 1)

\* const charVector = await toCharacterVector(output.data); then the tempVar of
\* extractConditionMessage is named after Date.now()
extractContent_toJs(t) ==
  /\ t \in Extractions
  /\ tasks[t].pc = "toJs"
  /\ \E fault \in Fault, now \in Now :
       LET tk == tasks[t]
           js == ToJs(tk.obj)
           isChar == ~fault /\ js.kind = "character"
           tk2 == IF isChar
                  THEN [tk EXCEPT !.pc = "done", !.content = toCharacterVector(js.values)]
                  ELSE IF tk.type \in ConditionKinds
                  THEN [tk EXCEPT !.pc = "cond_bind", !.tmp = now]
                  ELSE [tk EXCEPT !.pc = "ser_bind"]
       IN /\ faults' = faults + Count(fault)
          /\ tasks' = [tasks EXCEPT ![t] = tk2]
          /\ clock' = IF tk2.pc = "cond_bind" THEN now ELSE clock
          /\ req' = [req EXCEPT !.order = Completed(req.order, t, tk2)]
  /\ UNCHANGED <<packages, useWebR, instance, code, lastExecutedCode, showConsole, currentCsvData, calls, pipeline, globalEnv, reserved, messages, isExecuting, pc, outcome, failedRemovals>>

\* await this.webR.objs.globalEnv.bind(tempVar, conditionObj)
extractConditionMessage_bind(t) ==
  /\ t \in Extractions
  /\ tasks[t].pc = "cond_bind"
  /\ \E fault \in Fault :
       /\ faults' = faults + Count(fault)
       /\ IF fault
          THEN /\ tasks' = [tasks EXCEPT ![t].pc = "ser_bind"]
               /\ UNCHANGED globalEnv
          ELSE /\ tasks' = [tasks EXCEPT ![t].pc = "cond_eval"]
               /\ globalEnv' = Bind(globalEnv, ConditionTemp(tasks[t].tmp), tasks[t].obj)
  /\ UNCHANGED <<packages, useWebR, instance, code, lastExecutedCode, showConsole, currentCsvData, calls, pipeline, reserved, clock, messages, isExecuting, pc, req, outcome, failedRemovals>>

\* const messageResult = await this.webR.evalR(`obj <- ${tempVar} ...`)
extractConditionMessage_evalR(t) ==
  /\ t \in Extractions
  /\ tasks[t].pc = "cond_eval"
  /\ \E fault \in Fault :
       LET o == globalEnv[ConditionTemp(tasks[t].tmp)]
           r == IF o = Unbound THEN [ok |-> FALSE, lines |-> <<>>] ELSE ConditionBranch(o)
       IN /\ faults' = faults + Count(fault)
          /\ globalEnv' = IF fault \/ o = Unbound THEN globalEnv ELSE Bind(globalEnv, UserObj, o)
          /\ IF fault \/ ~r.ok
             THEN tasks' = [tasks EXCEPT ![t].pc = "ser_bind"]
             ELSE tasks' = [tasks EXCEPT ![t].pc = "cond_rm", ![t].val = r.lines]
  /\ UNCHANGED <<packages, useWebR, instance, code, lastExecutedCode, showConsole, currentCsvData, calls, pipeline, reserved, clock, messages, isExecuting, pc, req, outcome, failedRemovals>>

\* await this.webR.evalR(`rm(${tempVar})`), then toCharacterVector(messageResult)
extractConditionMessage_rm(t) ==
  /\ t \in Extractions
  /\ tasks[t].pc = "cond_rm"
  /\ \E fault \in Fault, how \in {"rm", "toJs"} :
       LET tk == tasks[t]
           message == IF fault THEN <<>> ELSE toCharacterVector(tk.val)
       IN /\ faults' = faults + Count(fault)
          /\ fault \/ how = "rm"
          /\ IF fault /\ how = "rm"
             THEN /\ tasks' = [tasks EXCEPT ![t].pc = "ser_bind"]
                  /\ globalEnv' = globalEnv
                  /\ failedRemovals' = failedRemovals \cup {"condition"}
                  /\ UNCHANGED req
             ELSE /\ tasks' = [tasks EXCEPT ![t].pc = "done",
                                 ![t].content = IF message = <<>> THEN <<UnableToExtract>>
                                                ELSE message]
                  /\ globalEnv' = Remove(globalEnv, ConditionTemp(tk.tmp))
                  /\ failedRemovals' = failedRemovals \ {"condition"}
                  /\ req' = [req EXCEPT !.order = Append(req.order, t)]
  /\ UNCHANGED <<packages, useWebR, instance, code, lastExecutedCode, showConsole, currentCsvData, calls, pipeline, reserved, clock, messages, isExecuting, pc, outcome>>

(* --------------------------- Executor.execute -------------------------- *)
ErrorMessage(text) == [type |-> "error", content |-> text]

\* a mutant of ExecuteCatch: the error is rethrown to the caller
ExecuteCatch_rethrow(error, duration) ==
  [status |-> "threw", outputs |-> <<>>, plots |-> <<>>, duration |-> duration, success |-> FALSE]

\* the catch block of Executor.execute
ExecuteCatch(error, duration) ==
  [status |-> "returned", outputs |-> <<ErrorMessage(cleanErrorMessage(error))>>, plots |-> <<>>,
   duration |-> duration, success |-> FALSE]

\* the return statement of the try block of Executor.execute
ExecuteReturn(outputs, plots, duration) ==
  [status |-> "returned", outputs |-> outputs, plots |-> plots, duration |-> duration,
   success |-> TRUE]

\* Array.prototype.splice(i, 1) at the 1-based position i
splice(log, i) == SubSeq(log, 1, i - 1) \o SubSeq(log, i + 1, Len(log))

\* the loop of a mutant of clearConsoleMessages that walks the log upwards
RECURSIVE clearConsoleMessages_up(_, _)
clearConsoleMessages_up(log, i) ==
  IF i > Len(log) THEN log
  ELSE clearConsoleMessages_up(IF log[i].type # "plot" THEN splice(log, i) ELSE log, i + 1)

\* a mutant of clearConsoleMessages: for (let i = 0; i < messages.length; i++)
clearConsoleMessages_forward(log) == clearConsoleMessages_up(log, 1)

\* the loop of clearConsoleMessages from position i down to the first message:
\* if (messages[i].type !== 'plot') messages.splice(i, 1)
RECURSIVE clearConsoleMessages_from(_, _)
clearConsoleMessages_from(log, i) ==
  IF i < 1 THEN log
  ELSE clearConsoleMessages_from(IF log[i].type # "plot" THEN splice(log, i) ELSE log, i - 1)

\* useWebR.clearConsoleMessages: for (let i = messages.length - 1; i >= 0; i--)
clearConsoleMessages(log) == clearConsoleMessages_from(log, Len(log))

\* a request never reads what an earlier request left in the workspace before binding
\* it anew: what is left is "old", and the names made from earlier timestamps are one
Aged(env) ==
  [n \in Names |->
     IF n = ConditionTemp(0)
     THEN (IF \E ts \in 0..MaxClock : env[ConditionTemp(ts)] # Unbound THEN "old" ELSE Unbound)
     ELSE IF n \in {ConditionTemp(ts) : ts \in 1..MaxClock} THEN Unbound
     ELSE IF env[n] = Unbound THEN Unbound
     ELSE "old"]

\* App.vue runCode: clearConsoleMessages(), then useWebR.executeCode up to
\* await executor.execute(code), which runs up to its first await
runCode ==
  /\ pipeline = "executor"
  /\ pc = "idle"
  /\ Len(clearConsoleMessages(messages)) <= MaxLog
  /\ messages' = clearConsoleMessages(messages)
  /\ isExecuting' = TRUE
  /\ pc' = "options"
  /\ clock' = 1
  /\ globalEnv' = Aged(globalEnv)
  /\ req' = [NoReq EXCEPT !.start = 1, !.base = Len(clearConsoleMessages(messages))]
  /\ outcome' = NoOutcome
  /\ tasks' = [t \in TaskIds |-> IdleTask]
  /\ UNCHANGED <<packages, useWebR, instance, code, lastExecutedCode, showConsole, currentCsvData, calls, pipeline, reserved, faults, failedRemovals>>

\* await this.webR.evalR('options(warn = 1, width = 80)')
execute_options ==
  /\ pc = "options"
  /\ \/ /\ pc' = "capture"
        /\ UNCHANGED <<faults, outcome, req>>
     \/ \E text \in FaultTexts :
          /\ faults < MaxFaults
          /\ faults' = faults + 1
          /\ req' = [req EXCEPT !.captured = "not called", !.thrown = text]
          /\ outcome' = ExecuteCatch(text, clock - req.start)
          /\ pc' = "returned"
  /\ UNCHANGED <<packages, useWebR, instance, code, lastExecutedCode, showConsole, currentCsvData, calls, pipeline, globalEnv, reserved, clock, messages, isExecuting, tasks, failedRemovals>>

\* the text of the error thrown by the capture call when the code stops with error e
RawErrors(e) ==
  { <<ConditionMessage(e)>>, <<InternalPrefix, ConditionMessage(e)>>,
    <<LongCall, ConditionMessage(e)>> }

\* await this.shelter.captureR(code, {...}) returned: processMultiple starts every extraction
execute_captureR ==
  /\ pc = "capture"
  /\ \E sigs \in SignalSeqs :
       /\ req' = [req EXCEPT !.signals = sigs, !.raised = sigs, !.captured = "ok",
                             !.order = StartOrder(sigs, 1)]
       /\ tasks' = [t \in TaskIds |->
                      IF t \in 1..Len(sigs) THEN StartProcess(sigs[t]) ELSE IdleTask]
       /\ pc' = "processMultiple"
  /\ UNCHANGED <<packages, useWebR, instance, code, lastExecutedCode, showConsole, currentCsvData, calls, pipeline, globalEnv, reserved, clock, faults, messages, isExecuting, outcome, failedRemovals>>

\* await this.shelter.captureR(code, {...}) threw: the code stopped with an error after
\* raising the signals sigs, or the interpreter faulted
execute_captureR_throws ==
  /\ pc = "capture"
  /\ \/ \E sigs \in SignalSeqs, text \in RawErrors("e1") :
          /\ req' = [req EXCEPT !.raised = sigs, !.err = "e1", !.captured = "threw",
                                !.thrown = text]
          /\ outcome' = ExecuteCatch(text, clock - req.start)
          /\ UNCHANGED faults
     \/ \E text \in FaultTexts :
          /\ faults < MaxFaults
          /\ faults' = faults + 1
          /\ req' = [req EXCEPT !.captured = "threw", !.thrown = text]
          /\ outcome' = ExecuteCatch(text, clock - req.start)
  /\ pc' = "returned"
  /\ UNCHANGED <<packages, useWebR, instance, code, lastExecutedCode, showConsole, currentCsvData, calls, pipeline, globalEnv, reserved, clock, messages, isExecuting, tasks, failedRemovals>>

\* a mutant of processMultiple_results: results are collected in completion order
processMultiple_results_byCompletion(sigs, tks, order) ==
  [i \in 1..Len(sigs) |->
     [type |-> mapOutputType(sigs[order[i]].type), content |-> tks[order[i]].content]]

\* Promise.all(outputs.map(output => this.process(output)))
processMultiple_results(sigs, tks, order) ==
  [i \in 1..Len(sigs) |-> [type |-> mapOutputType(sigs[i].type), content |-> tks[i].content]]

\* utils/validators.ts imageToDataUrl
imageToDataUrl(image) == <<"data:image/png;base64,", image>>

\* the Promise.all of processMultiple resolved; result.images and result.result are read
\* (the model draws them here); plots; processResult up to its first await
execute_processed ==
  /\ pc = "processMultiple"
  /\ \A t \in 1..Len(req.signals) : tasks[t].pc = "done"
  /\ \E canvasFault \in Fault, imgs \in ImageSeqs, r \in ResultObjects \cup {NoObj},
        visible \in BOOLEAN :
       LET outputs == processMultiple_results(req.signals, tasks, req.order)
           plots == [i \in 1..Len(imgs) |-> imageToDataUrl(imgs[i])]
       IN /\ canvasFault => imgs # <<>>
          /\ visible => Autoprinted(req.signals, imgs, r)
          /\ faults' = faults + Count(canvasFault)
          /\ IF canvasFault
             THEN /\ outcome' = ExecuteCatch(<<"Canvas context unavailable">>, clock - req.start)
                  /\ req' = [req EXCEPT !.images = imgs, !.result = r, !.order = <<>>,
                                        !.visible = visible,
                                        !.thrown = <<"Canvas context unavailable">>]
                  /\ pc' = "returned"
             ELSE /\ req' = [req EXCEPT !.images = imgs, !.result = r, !.order = <<>>,
                                        !.visible = visible,
                                        !.outputs = outputs, !.plots = plots]
                  /\ IF r = NoObj
                     THEN /\ outcome' = ExecuteReturn(outputs, plots, clock - req.start)
                          /\ pc' = "returned"
                     ELSE /\ pc' = "res_type"
                          /\ UNCHANGED outcome
  /\ tasks' = [t \in TaskIds |-> IdleTask]
  /\ UNCHANGED <<packages, useWebR, instance, code, lastExecutedCode, showConsole, currentCsvData, calls, pipeline, globalEnv, reserved, clock, messages, isExecuting, failedRemovals>>

SkipTypes == {"closure", "builtin", "special"}

\* const resultType = await result.type()
processResult_type ==
  /\ pc = "res_type"
  /\ \E fault \in Fault :
       LET resultType == RType(req.result)
           skip == fault \/ resultType = "null" \/ resultType \in SkipTypes
       IN /\ faults' = faults + Count(fault)
          /\ IF skip
             THEN /\ outcome' = ExecuteReturn(req.outputs, req.plots, clock - req.start)
                  /\ pc' = "returned"
             ELSE /\ pc' = "plot_bind"
                  /\ UNCHANGED outcome
  /\ UNCHANGED <<packages, useWebR, instance, code, lastExecutedCode, showConsole, currentCsvData, calls, pipeline, globalEnv, reserved, clock, messages, isExecuting, req, tasks, failedRemovals>>

\* processResult goes on to await this.serializer.serialize(result)
SerializeResult ==
  [tasks EXCEPT ![MainTask] = [IdleTask EXCEPT !.pc = "ser_bind", !.obj = req.result,
                                               !.cmd = "print", !.ctx = "result"]]

\* await this.webR.objs.globalEnv.bind('.__check_plot__', result)
isPlotObject_bind ==
  /\ pc = "plot_bind"
  /\ \E fault \in Fault :
       /\ faults' = faults + Count(fault)
       /\ IF fault
          THEN /\ pc' = "serialize"
               /\ tasks' = SerializeResult
               /\ UNCHANGED globalEnv
          ELSE /\ pc' = "plot_eval"
               /\ globalEnv' = Bind(globalEnv, CheckPlot, req.result)
               /\ UNCHANGED tasks
  /\ UNCHANGED <<packages, useWebR, instance, code, lastExecutedCode, showConsole, currentCsvData, calls, pipeline, reserved, clock, messages, isExecuting, req, outcome, failedRemovals>>

\* const checkResult = await this.webR.evalR(`inherits(.__check_plot__, c(...))`)
isPlotObject_evalR ==
  /\ pc = "plot_eval"
  /\ \E fault \in Fault :
       LET o == globalEnv[CheckPlot]
       IN /\ faults' = faults + Count(fault)
          /\ IF fault \/ o = Unbound
             THEN /\ pc' = "serialize"
                  /\ tasks' = SerializeResult
                  /\ UNCHANGED req
             ELSE /\ pc' = "plot_rm"
                  /\ req' = [req EXCEPT !.verdict = InheritsPlot(o)]
                  /\ UNCHANGED tasks
  /\ UNCHANGED <<packages, useWebR, instance, code, lastExecutedCode, showConsole, currentCsvData, calls, pipeline, globalEnv, reserved, clock, messages, isExecuting, outcome, failedRemovals>>

\* await this.webR.evalR('rm(.__check_plot__)'), then checkResult.toJs()
isPlotObject_rm ==
  /\ pc = "plot_rm"
  /\ \E fault \in Fault, how \in {"rm", "toJs"} :
       LET isPlot == ~fault /\ req.verdict
       IN /\ faults' = faults + Count(fault)
          /\ fault \/ how = "rm"
          /\ globalEnv' = IF fault /\ how = "rm" THEN globalEnv ELSE Remove(globalEnv, CheckPlot)
          /\ failedRemovals' = IF fault /\ how = "rm" THEN failedRemovals \cup {"plotcheck"}
                               ELSE failedRemovals \ {"plotcheck"}
          /\ IF isPlot
             THEN /\ outcome' = ExecuteReturn(req.outputs, req.plots, clock - req.start)
                  /\ pc' = "returned"
                  /\ UNCHANGED tasks
             ELSE /\ pc' = "serialize"
                  /\ tasks' = SerializeResult
                  /\ UNCHANGED outcome
  /\ UNCHANGED <<packages, useWebR, instance, code, lastExecutedCode, showConsole, currentCsvData, calls, pipeline, reserved, clock, messages, isExecuting, req>>

\* processResult after the Serializer returned or threw: the final-value message, if any
processResult_message(ret) ==
  IF ret.status = "returned" /\ ret.text # <<>> /\ TrimNonEmpty(ret.text)
  THEN <<[type |-> "stdout", content |-> ret.text]>>
  ELSE <<>>

\* a mutant of extractContent_catch: the text of the error is handed on
extractContent_catch_errorText(ret) == ret.text

\* OutputProcessor.extractContent after the Serializer returned or threw: the catch
\* block turns a throw into the placeholder
extractContent_catch(ret) ==
  IF ret.status = "threw" THEN <<UnableToDisplay>> ELSE ret.text

\* the finally block of the Serializer method, and what its caller does with the result
cleanupTempVar(t) ==
  /\ tasks[t].pc = "ser_cleanup"
  /\ \E fault \in Fault :
       LET tk == tasks[t]
           ret == SerializerReturn(tk)
       IN /\ faults' = faults + Count(fault)
          /\ globalEnv' = cleanupTempVarEffect(globalEnv, tk.failed, fault)
          /\ failedRemovals' = IF fault THEN failedRemovals \cup {"serializer"}
                               ELSE failedRemovals \ {"serializer"}
          /\ CASE tk.ctx = "direct" ->
                    /\ tasks' = [tasks EXCEPT ![t] = IdleTask]
                    /\ pc' = "idle"
                    /\ req' = [req EXCEPT !.serialized = ret.text,
                                          !.call = <<tk.cmd, tk.obj>>]
                    /\ outcome' = [NoOutcome EXCEPT !.status = ret.status]
               [] tk.ctx = "extract" ->
                    /\ tasks' = [tasks EXCEPT ![t].pc = "done",
                                   ![t].content = extractContent_catch(ret)]
                    /\ req' = [req EXCEPT !.order = Append(req.order, t)]
                    /\ UNCHANGED <<pc, outcome>>
               [] OTHER ->
                    /\ tasks' = [tasks EXCEPT ![t] = IdleTask]
                    /\ req' = [req EXCEPT !.final = processResult_message(ret)]
                    /\ outcome' = ExecuteReturn(req.outputs \o processResult_message(ret),
                                                req.plots, clock - req.start)
                    /\ pc' = "returned"
  /\ UNCHANGED <<packages, useWebR, instance, code, lastExecutedCode, showConsole, currentCsvData, calls, pipeline, reserved, clock, messages, isExecuting>>

PlotMessages(plots) == [i \in 1..Len(plots) |-> [type |-> "plot", content |-> plots[i]]]

\* a mutant of executeCode_append: the log so far lies between the outputs and the plots
executeCode_append_split(log, result, final) ==
  result.outputs \o log \o PlotMessages(result.plots)

\* a mutant of executeCode_append: plots are appended before the final-value message
executeCode_append_plotsBeforeFinal(log, result, final) ==
  log \o SubSeq(result.outputs, 1, Len(result.outputs) - Len(final))
      \o PlotMessages(result.plots)
      \o SubSeq(result.outputs, Len(result.outputs) - Len(final) + 1, Len(result.outputs))

\* useWebR.executeCode: result.outputs.forEach(push), then result.plots.forEach(push)
executeCode_append(log, result, final) ==
  log \o result.outputs \o PlotMessages(result.plots)

\* a mutant of executeCode_finallyBlock: isExecuting is reset after a successful
\* execution only
executeCode_finallyBlock_onSuccess(result) == ~result.success

\* the finally block of useWebR.executeCode: isExecuting.value = false
executeCode_finallyBlock(result) == FALSE

\* useWebR.executeCode after await executor.execute(code), and its finally block
executeCode_resume ==
  /\ pc = "returned"
  /\ messages' = IF outcome.status = "returned"
                 THEN executeCode_append(messages, outcome, req.final)
                 ELSE messages
  /\ isExecuting' = executeCode_finallyBlock(outcome)
  /\ pc' = "idle"
  /\ UNCHANGED <<packages, useWebR, instance, code, lastExecutedCode, showConsole, currentCsvData, calls, pipeline, globalEnv, reserved, clock, faults, req, tasks, outcome, failedRemovals>>

(* ------------- createExecuteCodeFunction (the wrapped path) ------------ *)
\* String(error) of an Error object
StringOfError(text) == <<ErrorName>> \o text

\* the catch block of createExecuteCodeFunction: errorMessage.startsWith('M: ')
stripInternalPrefix(errorMessage) ==
  IF Len(errorMessage) >= 1 /\ errorMessage[1] = InternalPrefix THEN Tail(errorMessage)
  ELSE errorMessage

\* an error condition that reaches the wrapper's tryCatch ends the evaluation, and a
\* WebROutputItem carries data
WrappedShapes ==
  {sig \in SignalShapes : sig.tag # "absent" /\ sig.type # "error"}
    \cup {[type |-> "message", tag |-> "object", v |-> "badprint"]}
WrappedSeqs == UNION {[1..n -> WrappedShapes] : n \in 0..MaxSignals}

\* (output.type in WEBR_TYPE_MAP) ? WEBR_TYPE_MAP[output.type] : 'info'
WEBR_TYPE_MAP(type) ==
  CASE type = "stdout" -> "stdout"
    [] type = "stderr" -> "stderr"
    [] type = "message" -> "info"
    [] type = "warning" -> "warning"
    [] type = "error" -> "error"
    [] type \in ObjectPrototype -> InheritedMember
    [] OTHER -> "info"

\* the warning handler of the wrapper: c(current_warnings, conditionMessage(w))
RECURSIVE CollectedWarnings(_)
CollectedWarnings(sigs) ==
  IF sigs = <<>> THEN <<>>
  ELSE (IF Head(sigs).type = "warning" THEN <<ConditionMessage(Head(sigs).v)>> ELSE <<>>)
       \o CollectedWarnings(Tail(sigs))

\* a mutant of PastWarningHandler: the handler ends with invokeRestart("muffleWarning")
PastWarningHandler_muffled(sigs) == SelectSeq(sigs, LAMBDA sig : sig.type # "warning")

\* the signals that reach the capture facility past the wrapper's warning handler,
\* which returns without muffling
PastWarningHandler(sigs) == sigs

\* the error handler of the wrapper: paste(error_msg, "\n\nIn addition: ...", warning_text)
CompleteError(e, warnings) ==
  IF warnings = <<>> THEN <<ConditionMessage(e)>>
  ELSE <<ConditionMessage(e), " ", WarningSeparator, " ">> \o Join(warnings, NL)

\* extractEnhancedErrorMessage
extractEnhancedErrorMessage(res, fallbackMessage, fault) ==
  LET completeMessage == IF res.complete.bound THEN res.complete.val ELSE <<>>
  IN IF ~fault /\ TrimNonEmpty(completeMessage)
        /\ TextLen(completeMessage) > TextLen(fallbackMessage)
     THEN completeMessage
     ELSE fallbackMessage

\* the first evaluation of createSerializeFunction
TempObjLines(o) ==
  IF o \in Conditions THEN [ok |-> TRUE, lines |-> <<ConditionMessage(o)>>] ELSE PrintLines(o)

\* `[Serialization error: ${error}]`
SerializationError(text) == <<"[Serialization error: ">> \o StringOfError(text) \o <<"]">>

\* the R code of resultCheck
ResultCheck(o) ==
  CASE o = "gg" -> "plot"
    [] o = "fn" -> "function"
    [] o \in {"nul", "quiet", "blank"} -> "empty"
    [] OTHER -> "display"

\* the function returned by createExecuteCodeFunction, up to its first await
executeWrapped ==
  /\ pipeline = "wrapped"
  /\ pc = "idle"
  /\ Len(messages) <= MaxLog
  /\ pc' = "w_options"
  /\ req' = [NoReq EXCEPT !.base = Len(messages), !.i = 1]
  /\ outcome' = NoOutcome
  /\ tasks' = [t \in TaskIds |-> IdleTask]
  /\ globalEnv' = Aged(globalEnv)
  /\ UNCHANGED <<packages, useWebR, instance, code, lastExecutedCode, showConsole, currentCsvData, calls, pipeline, reserved, clock, faults, messages, isExecuting, failedRemovals>>

\* await webR.evalR('options(warn = 1, show.error.messages = TRUE, error.verbose = TRUE)')
wrapped_options ==
  /\ pc = "w_options"
  /\ \/ /\ pc' = "w_capture"
        /\ UNCHANGED <<faults, req>>
     \/ \E text \in FaultTexts :
          /\ faults < MaxFaults
          /\ faults' = faults + 1
          /\ req' = [req EXCEPT !.captured = "not called", !.thrown = StringOfError(text)]
          /\ pc' = "w_enhance"
  /\ UNCHANGED <<packages, useWebR, instance, code, lastExecutedCode, showConsole, currentCsvData, calls, pipeline, globalEnv, reserved, clock, messages, isExecuting, tasks, outcome, failedRemovals>>

\* await shelter.captureR(wrappedCode, {...}): the wrapper assigns the accumulator, the
\* code raises the signals sigs, and returns or stops with an error
wrapped_captureR ==
  /\ pc = "w_capture"
  /\ \/ \E sigs \in WrappedSeqs :
          /\ reserved' = [reserved EXCEPT
                            !.warnings = [bound |-> TRUE, val |-> CollectedWarnings(sigs)]]
          /\ req' = [req EXCEPT !.signals = PastWarningHandler(sigs), !.raised = sigs,
                                !.captured = "ok"]
          /\ pc' = "w_drain"
          /\ UNCHANGED faults
     \/ \E sigs \in WrappedSeqs, text \in RawErrors("e1") :
          /\ reserved' = [warnings |-> [bound |-> TRUE, val |-> CollectedWarnings(sigs)],
                          complete |-> [bound |-> TRUE,
                                        val |-> CompleteError("e1", CollectedWarnings(sigs))]]
          /\ req' = [req EXCEPT !.raised = sigs, !.err = "e1", !.captured = "threw",
                                !.thrown = StringOfError(text)]
          /\ pc' = "w_enhance"
          /\ UNCHANGED faults
     \/ \E text \in FaultTexts :
          /\ faults < MaxFaults
          /\ faults' = faults + 1
          /\ req' = [req EXCEPT !.captured = "threw", !.thrown = StringOfError(text)]
          /\ pc' = "w_enhance"
          /\ UNCHANGED reserved
     \/ \* the code does not parse: nothing of the wrapped text is evaluated
        /\ req' = [req EXCEPT !.captured = "threw", !.thrown = StringOfError(<<"P1">>)]
        /\ pc' = "w_enhance"
        /\ UNCHANGED <<faults, reserved>>
  /\ UNCHANGED <<packages, useWebR, instance, code, lastExecutedCode, showConsole, currentCsvData, calls, pipeline, globalEnv, clock, messages, isExecuting, tasks, outcome, failedRemovals>>

\* addMessage(messageType, content) for the signal being drained, and on to the next one
Drained(content) ==
  /\ messages' = Append(messages, [type |-> WEBR_TYPE_MAP(req.signals[req.i].type),
                                   content |-> content])
  /\ req' = [req EXCEPT !.i = @ + 1]
  /\ tasks' = [tasks EXCEPT ![MainTask] = IdleTask]
  /\ pc' = "w_drain"

\* createExtractContentFunction: string data, or jsResult = await proxy.toJs()
wrapped_extractContent ==
  /\ pc = "w_drain"
  /\ req.i <= Len(req.signals)
  /\ LET sig == req.signals[req.i]
     IN IF sig.tag = "string"
        THEN /\ Drained(<<sig.v>>)
             /\ UNCHANGED faults
        ELSE \E fault \in Fault :
               /\ faults' = faults + Count(fault)
               /\ IF ~fault /\ ToJs(sig.v).kind = "character"
                  THEN Drained(Join(ToJs(sig.v).values, EscapedNL))
                  ELSE /\ pc' = "w_bind"
                       /\ tasks' = [tasks EXCEPT ![MainTask] =
                                      [IdleTask EXCEPT !.pc = "w_bind", !.obj = sig.v]]
                       /\ UNCHANGED <<messages, req>>
  /\ UNCHANGED <<packages, useWebR, instance, code, lastExecutedCode, showConsole, currentCsvData, calls, pipeline, globalEnv, reserved, clock, isExecuting, outcome, failedRemovals>>

\* await webRInstance.objs.globalEnv.bind('.__temp_obj__', proxy)
createSerializeFunction_bind ==
  /\ pc = "w_bind"
  /\ \E fault \in Fault :
       /\ faults' = faults + Count(fault)
       /\ IF fault
          THEN /\ Drained(SerializationError(<<"F1">>))
               /\ UNCHANGED globalEnv
          ELSE /\ globalEnv' = Bind(globalEnv, TempObj, tasks[MainTask].obj)
               /\ pc' = "w_eval"
               /\ UNCHANGED <<messages, req, tasks>>
  /\ UNCHANGED <<packages, useWebR, instance, code, lastExecutedCode, showConsole, currentCsvData, calls, pipeline, reserved, clock, isExecuting, outcome, failedRemovals>>

\* capturedOutput = await webRInstance.evalR(`if (inherits(.__temp_obj__, 'condition')) ...`)
createSerializeFunction_evalR ==
  /\ pc = "w_eval"
  /\ \E fault \in Fault :
       LET o == globalEnv[TempObj]
           r == IF o = Unbound THEN [ok |-> FALSE, lines |-> <<>>] ELSE TempObjLines(o)
       IN /\ faults' = faults + Count(fault)
          /\ IF fault \/ ~r.ok
             THEN /\ pc' = "w_fallback"
                  /\ UNCHANGED tasks
             ELSE /\ pc' = "w_rm"
                  /\ tasks' = [tasks EXCEPT ![MainTask].val = r.lines]
  /\ UNCHANGED <<packages, useWebR, instance, code, lastExecutedCode, showConsole, currentCsvData, calls, pipeline, globalEnv, reserved, clock, messages, isExecuting, req, outcome, failedRemovals>>

\* catch { capturedOutput = await webRInstance.evalR('capture.output(print(.__temp_obj__))') }
createSerializeFunction_fallback ==
  /\ pc = "w_fallback"
  /\ \E fault \in Fault :
       LET o == globalEnv[TempObj]
           r == IF o = Unbound THEN [ok |-> FALSE, lines |-> <<>>] ELSE PrintLines(o)
       IN /\ faults' = faults + Count(fault)
          /\ IF fault \/ ~r.ok
             THEN Drained(SerializationError(IF fault THEN <<"F1">> ELSE <<"R1">>))
             ELSE /\ pc' = "w_rm"
                  /\ tasks' = [tasks EXCEPT ![MainTask].val = r.lines]
                  /\ UNCHANGED <<messages, req>>
  /\ UNCHANGED <<packages, useWebR, instance, code, lastExecutedCode, showConsole, currentCsvData, calls, pipeline, globalEnv, reserved, clock, isExecuting, outcome, failedRemovals>>

\* outputJs = await capturedOutput.toJs(); await webRInstance.evalR('rm(.__temp_obj__, ...)')
createSerializeFunction_rm ==
  /\ pc = "w_rm"
  /\ \E fault \in Fault, how \in {"toJs", "rm"} :
       LET values == tasks[MainTask].val
       IN /\ faults' = faults + Count(fault)
          /\ fault \/ how = "rm"
          /\ IF fault
             THEN /\ Drained(SerializationError(<<"F1">>))
                  /\ UNCHANGED globalEnv
                  /\ failedRemovals' = failedRemovals \cup
                                         {IF how = "rm" THEN "tempobj" ELSE "tempobj toJs"}
             ELSE /\ Drained(IF values # <<>> THEN Join(values, EscapedNL)
                             ELSE <<NotSerialized>>)
                  /\ globalEnv' = Remove(globalEnv, TempObj)
                  /\ failedRemovals' = failedRemovals \ {"tempobj", "tempobj toJs"}
  /\ UNCHANGED <<packages, useWebR, instance, code, lastExecutedCode, showConsole, currentCsvData, calls, pipeline, reserved, clock, isExecuting, outcome>>

\* the function returned by createExecuteCodeFunction returns
WrappedReturn ==
  /\ pc' = "idle"
  /\ outcome' = [NoOutcome EXCEPT !.status = "returned"]

\* the loop over result.images (read here); a canvas may have no 2d context; then
\* result.result is read
wrapped_images ==
  /\ pc = "w_drain"
  /\ req.i > Len(req.signals)
  /\ \E imgs \in ImageSeqs, r \in ResultObjects \cup {NoObj} :
     \E drawn \in SUBSET (1..Len(imgs)) :
       LET shown == SelectSeq([i \in 1..Len(imgs) |-> [at |-> i, url |-> imageToDataUrl(imgs[i])]],
                              LAMBDA x : x.at \in drawn)
       IN /\ messages' = messages \o [i \in 1..Len(shown) |->
                                        [type |-> "plot", content |-> shown[i].url]]
          /\ req' = [req EXCEPT !.images = imgs, !.result = r,
                                !.plots = [i \in 1..Len(shown) |-> shown[i].url]]
          /\ IF r = NoObj
             THEN WrappedReturn
             ELSE /\ pc' = "w_type"
                  /\ UNCHANGED outcome
  /\ UNCHANGED <<packages, useWebR, instance, code, lastExecutedCode, showConsole, currentCsvData, calls, pipeline, globalEnv, reserved, clock, faults, isExecuting, tasks, failedRemovals>>

\* const resultType = await result.result.type()
wrapped_type ==
  /\ pc = "w_type"
  /\ \E fault \in Fault :
       /\ faults' = faults + Count(fault)
       /\ IF fault \/ RType(req.result) = "null"
          THEN WrappedReturn
          ELSE /\ pc' = "w_check"
               /\ UNCHANGED outcome
  /\ UNCHANGED <<packages, useWebR, instance, code, lastExecutedCode, showConsole, currentCsvData, calls, pipeline, globalEnv, reserved, clock, messages, isExecuting, req, tasks, failedRemovals>>

\* const resultCheck = await webR.evalR(`if (exists(".Last.value")) ...`) and its toJs()
wrapped_resultCheck ==
  /\ pc = "w_check"
  /\ \E fault \in Fault :
       /\ faults' = faults + Count(fault)
       /\ IF fault \/ ResultCheck(req.result) # "display"
          THEN WrappedReturn
          ELSE /\ pc' = "w_print"
               /\ UNCHANGED outcome
  /\ UNCHANGED <<packages, useWebR, instance, code, lastExecutedCode, showConsole, currentCsvData, calls, pipeline, globalEnv, reserved, clock, messages, isExecuting, req, tasks, failedRemovals>>

\* const resultStr = await webR.evalR(`capture.output(print(.Last.value))`) and its toJs()
wrapped_print ==
  /\ pc = "w_print"
  /\ \E fault \in Fault :
       LET r == PrintLines(req.result)
           final == IF ~fault /\ r.ok /\ r.lines # <<>>
                    THEN <<[type |-> "stdout", content |-> Join(r.lines, EscapedNL)]>>
                    ELSE <<>>
       IN /\ faults' = faults + Count(fault)
          /\ messages' = messages \o final
          /\ req' = [req EXCEPT !.final = final]
          /\ WrappedReturn
  /\ UNCHANGED <<packages, useWebR, instance, code, lastExecutedCode, showConsole, currentCsvData, calls, pipeline, globalEnv, reserved, clock, isExecuting, tasks, failedRemovals>>

\* the catch block: const enhancedMessage = await extractEnhancedErrorMessage(webR, errorMessage)
wrapped_extractEnhanced ==
  /\ pc = "w_enhance"
  /\ \E fault \in Fault :
       /\ faults' = faults + Count(fault)
       /\ req' = [req EXCEPT !.serialized =
                    extractEnhancedErrorMessage(reserved, stripInternalPrefix(req.thrown), fault)]
       /\ pc' = "w_cleanup"
  /\ UNCHANGED <<packages, useWebR, instance, code, lastExecutedCode, showConsole, currentCsvData, calls, pipeline, globalEnv, reserved, clock, messages, isExecuting, tasks, outcome, failedRemovals>>

\* await cleanupErrorHandlingVariables(webR); addMessage('error', enhancedMessage)
cleanupErrorHandlingVariables ==
  /\ pc = "w_cleanup"
  /\ \E fault \in Fault :
       /\ faults' = faults + Count(fault)
       /\ reserved' = IF fault THEN reserved ELSE NoReserved
       /\ failedRemovals' = IF fault THEN failedRemovals \cup {"reserved"}
                            ELSE failedRemovals \ {"reserved"}
       /\ messages' = Append(messages, ErrorMessage(req.serialized))
       /\ WrappedReturn
  /\ UNCHANGED <<packages, useWebR, instance, code, lastExecutedCode, showConsole, currentCsvData, calls, pipeline, globalEnv, clock, isExecuting, req, tasks>>

\* useWebR.clearMessages; req and outcome describe the latest request while its
\* messages are on the log
clearMessages ==
  /\ pc = "idle"
  /\ messages # <<>>
  /\ messages' = <<>>
  /\ req' = NoReq
  /\ outcome' = NoOutcome
  /\ UNCHANGED <<packages, useWebR, instance, code, lastExecutedCode, showConsole, currentCsvData, calls, pipeline, globalEnv, reserved, clock, faults, isExecuting, pc, tasks, failedRemovals>>

(* ------------- the classifier applied to every kind of signal ---------- *)
\* the kinds a signal can carry: the five documented ones, another name, two names
\* that Object.prototype defines, and no kind at all
KindNames == {"stdout", "stderr", "message", "warning", "error", "other", "absent"}
               \cup ObjectPrototype

ClassifierInit ==
  /\ pipeline = "classifier"
  /\ globalEnv = [n \in Names |-> Unbound]
  /\ reserved = NoReserved
  /\ clock = 1
  /\ faults = 0
  /\ messages = <<>>
  /\ isExecuting = FALSE
  /\ pc = "idle"
  /\ \E n \in 1..MaxSignals : \E kinds \in [1..n -> KindNames] :
       req = [NoReq EXCEPT !.signals = [i \in 1..n |->
                                          [type |-> kinds[i], tag |-> "string", v |-> "O1"]]]
  /\ tasks = [t \in TaskIds |-> IdleTask]
  /\ outcome = NoOutcome
  /\ failedRemovals = {}
  /\ currentCsvData = FALSE
  /\ calls = <<>>
  /\ code = "ex"
  /\ lastExecutedCode = ""
  /\ showConsole = FALSE
  /\ instance = NoInstance
  /\ packages = NoPackages
  /\ useWebR = NoUseWebR

\* OutputProcessor.process of the next signal: { type: mapOutputType(output.type), content }
process ==
  /\ pipeline = "classifier"
  /\ Len(messages) < Len(req.signals)
  /\ LET sig == req.signals[Len(messages) + 1]
     IN messages' = Append(messages, [type |-> mapOutputType(sig.type), content |-> <<sig.v>>])
  /\ UNCHANGED <<packages, useWebR, instance, code, lastExecutedCode, showConsole, currentCsvData, calls, pipeline, globalEnv, reserved, clock, faults, isExecuting, pc, req, tasks, outcome, failedRemovals>>

\* createExecuteCodeFunction, the next signal: addMessage(messageType, content)
addMessage ==
  /\ pipeline = "classifier"
  /\ Len(messages) < Len(req.signals)
  /\ LET sig == req.signals[Len(messages) + 1]
     IN messages' = Append(messages, [type |-> WEBR_TYPE_MAP(sig.type), content |-> <<sig.v>>])
  /\ UNCHANGED <<packages, useWebR, instance, code, lastExecutedCode, showConsole, currentCsvData, calls, pipeline, globalEnv, reserved, clock, faults, isExecuting, pc, req, tasks, outcome, failedRemovals>>

ClassifierNext == process \/ addMessage

(* ----------------------------- WebRInstance ---------------------------- *)
\* get isReady(): this.webR !== null && this.shelter !== null
WebRInstance_isReady == instance.webR /\ instance.shelter

\* initialize() up to its first await: if (this.webR) return this.getVersions()
initialize(c) ==
  /\ instance.initialize[c] \in {"none", "resolved", "threw"}
  /\ instance' = [instance EXCEPT !.initialize[c] = IF instance.webR THEN "getVersions"
                                                     ELSE "import"]
  /\ UNCHANGED <<packages, useWebR, faults, code, lastExecutedCode, showConsole, currentCsvData, calls, pipeline, globalEnv, reserved, clock, messages, isExecuting, pc, req, tasks, outcome, failedRemovals>>

\* await import('webr'); this.webR = new WebR(); on to await this.webR.init()
initialize_import(c) ==
  /\ instance.initialize[c] = "import"
  /\ \E fault \in Fault :
       /\ faults' = faults + Count(fault)
       /\ instance' = IF fault THEN [instance EXCEPT !.initialize[c] = "threw"]
                      ELSE [instance EXCEPT !.webR = TRUE, !.initialize[c] = "init"]
  /\ UNCHANGED <<packages, useWebR, code, lastExecutedCode, showConsole, currentCsvData, calls, pipeline, globalEnv, reserved, clock, messages, isExecuting, pc, req, tasks, outcome, failedRemovals>>

\* await this.webR.init(); on to await new this.webR.Shelter(), which needs this.webR
initialize_init(c) ==
  /\ instance.initialize[c] = "init"
  /\ \E fault \in Fault :
       /\ faults' = faults + Count(fault)
       /\ instance' = [instance EXCEPT !.initialize[c] =
                         IF fault \/ ~instance.webR THEN "threw" ELSE "Shelter"]
  /\ UNCHANGED <<packages, useWebR, code, lastExecutedCode, showConsole, currentCsvData, calls, pipeline, globalEnv, reserved, clock, messages, isExecuting, pc, req, tasks, outcome, failedRemovals>>

\* this.shelter = await new this.webR.Shelter(); on to this.getVersions(), whose
\* getWebR() throws when this.webR is null
initialize_Shelter(c) ==
  /\ instance.initialize[c] = "Shelter"
  /\ \E fault \in Fault :
       /\ faults' = faults + Count(fault)
       /\ instance' = IF fault THEN [instance EXCEPT !.initialize[c] = "threw"]
                      ELSE [instance EXCEPT !.shelter = TRUE,
                              !.initialize[c] = IF instance.webR THEN "getVersions"
                                                ELSE "threw"]
  /\ UNCHANGED <<packages, useWebR, code, lastExecutedCode, showConsole, currentCsvData, calls, pipeline, globalEnv, reserved, clock, messages, isExecuting, pc, req, tasks, outcome, failedRemovals>>

\* getVersions(): await webR.evalR('R.version.string') inside try/catch, so the call
\* resolves whether the evaluation returns or throws
getVersions(c) ==
  /\ instance.initialize[c] = "getVersions"
  /\ \E fault \in Fault :
       /\ faults' = faults + Count(fault)
       /\ instance' = [instance EXCEPT !.initialize[c] = "resolved"]
  /\ UNCHANGED <<packages, useWebR, code, lastExecutedCode, showConsole, currentCsvData, calls, pipeline, globalEnv, reserved, clock, messages, isExecuting, pc, req, tasks, outcome, failedRemovals>>

\* destroy(): the shelter is destroyed, shelter and webR are set to null
destroy ==
  /\ instance.webR \/ instance.shelter
  /\ instance' = [instance EXCEPT !.webR = FALSE, !.shelter = FALSE]
  /\ UNCHANGED <<packages, useWebR, faults, code, lastExecutedCode, showConsole, currentCsvData, calls, pipeline, globalEnv, reserved, clock, messages, isExecuting, pc, req, tasks, outcome, failedRemovals>>

InstanceNext ==
  \/ \E c \in 1..MaxInits : initialize(c)
  \/ \E c \in 1..MaxInits : initialize_import(c)
  \/ \E c \in 1..MaxInits : initialize_init(c)
  \/ \E c \in 1..MaxInits : initialize_Shelter(c)
  \/ \E c \in 1..MaxInits : getVersions(c)
  \/ destroy

(* ---------------------------- PackageManager --------------------------- *)
\* install(packageName) up to its first await: a package in the installed set is
\* answered from the cache with versions.get(packageName) || 'unknown'
PackageManager_install(pk, c, p) ==
  IF p \in pk.installed
  THEN [pk EXCEPT !.install[c] = [pc |-> "returned", name |-> p,
                                  version |-> IF pk.versions[p] # "" THEN pk.versions[p]
                                              ELSE "unknown"]]
  ELSE [pk EXCEPT !.install[c] = [pc |-> "installPackages", name |-> p, version |-> ""]]

\* a caller other than installMultiple calls install
install(p) ==
  /\ \E c \in 2..MaxInstalls :
       /\ packages.install[c].pc = "none"
       /\ \A d \in 2..(c - 1) : packages.install[d].pc # "none"
       /\ packages' = PackageManager_install(packages, c, p)
  /\ UNCHANGED <<faults, useWebR, code, lastExecutedCode, showConsole, currentCsvData, calls, pipeline, globalEnv, reserved, clock, messages, isExecuting, pc, req, tasks, outcome, failedRemovals, instance>>

\* await this.webR.installPackages([packageName]); this.installed.add(packageName)
install_installPackages(c) ==
  /\ packages.install[c].pc = "installPackages"
  /\ \E fault \in Fault :
       /\ faults' = faults + Count(fault)
       /\ packages' =
            IF fault THEN [packages EXCEPT !.install[c].pc = "threw"]
            ELSE [packages EXCEPT !.installed = @ \cup {packages.install[c].name},
                                  !.library = @ \cup {packages.install[c].name},
                                  !.install[c].pc = "getVersion"]
  /\ UNCHANGED <<useWebR, code, lastExecutedCode, showConsole, currentCsvData, calls, pipeline, globalEnv, reserved, clock, messages, isExecuting, pc, req, tasks, outcome, failedRemovals, instance>>

\* getVersion(packageName): the version of the package, or null when the evaluation throws
getVersion(fault) == IF fault THEN "" ELSE "1.0"

\* const version = await this.getVersion(packageName);
\* if (version) this.versions.set(packageName, version); return { name, version || 'unknown' }
install_getVersion(c) ==
  /\ packages.install[c].pc = "getVersion"
  /\ \E fault \in Fault :
       LET version == getVersion(fault)
           name == packages.install[c].name
       IN /\ faults' = faults + Count(fault)
          /\ packages' =
               [packages EXCEPT !.versions[name] = IF version # "" THEN version ELSE @,
                                !.install[c].pc = "returned",
                                !.install[c].version = IF version # "" THEN version
                                                       ELSE "unknown"]
  /\ UNCHANGED <<useWebR, code, lastExecutedCode, showConsole, currentCsvData, calls, pipeline, globalEnv, reserved, clock, messages, isExecuting, pc, req, tasks, outcome, failedRemovals, instance>>

\* the caller of install, other than installMultiple, takes its result or its error
install_settled(c) ==
  /\ c >= 2
  /\ packages.install[c].pc \in {"returned", "threw"}
  /\ packages' = [packages EXCEPT !.install[c] = NoInstall]
  /\ UNCHANGED <<faults, useWebR, code, lastExecutedCode, showConsole, currentCsvData, calls, pipeline, globalEnv, reserved, clock, messages, isExecuting, pc, req, tasks, outcome, failedRemovals, instance>>

\* isInstalled(packageName) after its await of requireNamespace: a package that R finds
\* is added to the installed set; a package in the cache, an evaluation that throws and a
\* package R does not find change nothing
isInstalled(p) ==
  /\ p \in packages.library
  /\ p \notin packages.installed
  /\ packages' = [packages EXCEPT !.installed = @ \cup {p}]
  /\ UNCHANGED <<faults, useWebR, code, lastExecutedCode, showConsole, currentCsvData, calls, pipeline, globalEnv, reserved, clock, messages, isExecuting, pc, req, tasks, outcome, failedRemovals, instance>>

\* removeFromTracking(packageName)
removeFromTracking(p) ==
  /\ p \in packages.installed \/ packages.versions[p] # ""
  /\ packages' = [packages EXCEPT !.installed = @ \ {p}, !.versions[p] = ""]
  /\ UNCHANGED <<faults, useWebR, code, lastExecutedCode, showConsole, currentCsvData, calls, pipeline, globalEnv, reserved, clock, messages, isExecuting, pc, req, tasks, outcome, failedRemovals, instance>>

\* clearTracking()
clearTracking ==
  /\ packages.installed # {} \/ \E p \in PackageNames : packages.versions[p] # ""
  /\ packages' = [packages EXCEPT !.installed = {},
                                  !.versions = [p \in PackageNames |-> ""]]
  /\ UNCHANGED <<faults, useWebR, code, lastExecutedCode, showConsole, currentCsvData, calls, pipeline, globalEnv, reserved, clock, messages, isExecuting, pc, req, tasks, outcome, failedRemovals, instance>>

\* initializeWebR reaches await packages.installEssentials(), which is
\* installMultiple([...ESSENTIALS]) with results = []
initializeWebR_installEssentials ==
  /\ useWebR.pc = "none"
  /\ useWebR' = [useWebR EXCEPT !.pc = "installEssentials", !.i = 1, !.results = <<>>]
  /\ UNCHANGED <<faults, packages, code, lastExecutedCode, showConsole, currentCsvData, calls, pipeline, globalEnv, reserved, clock, messages, isExecuting, pc, req, tasks, outcome, failedRemovals, instance>>

\* installMultiple: await this.install(name) for the next name
installMultiple_install ==
  /\ useWebR.pc = "installEssentials"
  /\ useWebR.i <= Len(ESSENTIALS)
  /\ packages.install[1].pc = "none"
  /\ packages' = PackageManager_install(packages, 1, ESSENTIALS[useWebR.i])
  /\ UNCHANGED <<faults, useWebR, code, lastExecutedCode, showConsole, currentCsvData, calls, pipeline, globalEnv, reserved, clock, messages, isExecuting, pc, req, tasks, outcome, failedRemovals, instance>>

\* installMultiple: results.push(info), or results.push({ name, version: 'failed' }) in
\* the catch
installMultiple_push ==
  /\ useWebR.pc = "installEssentials"
  /\ packages.install[1].pc \in {"returned", "threw"}
  /\ useWebR' = [useWebR EXCEPT
                   !.results = Append(@, [name |-> packages.install[1].name,
                                          version |-> IF packages.install[1].pc = "threw"
                                                      THEN "failed"
                                                      ELSE packages.install[1].version]),
                   !.i = @ + 1]
  /\ packages' = [packages EXCEPT !.install[1] = NoInstall]
  /\ UNCHANGED <<faults, code, lastExecutedCode, showConsole, currentCsvData, calls, pipeline, globalEnv, reserved, clock, messages, isExecuting, pc, req, tasks, outcome, failedRemovals, instance>>

\* essentialPackages.forEach(pkg => { installedPackages.add(pkg.name);
\*   if (pkg.version !== 'failed') packageVersions[pkg.name] = pkg.version })
initializeWebR_forEach(installedPackages, results) ==
  installedPackages \cup {results[k].name : k \in 1..Len(results)}

\* initializeWebR after installEssentials returned: the reactive state is updated
initializeWebR_update ==
  /\ useWebR.pc = "installEssentials"
  /\ useWebR.i > Len(ESSENTIALS)
  /\ useWebR' = [useWebR EXCEPT
                   !.pc = "ready",
                   !.installedPackages = initializeWebR_forEach(@, useWebR.results),
                   !.packageVersions =
                      [p \in PackageNames |->
                         IF \E k \in 1..Len(useWebR.results) :
                              useWebR.results[k].name = p /\ useWebR.results[k].version # "failed"
                         THEN (CHOOSE v \in {useWebR.results[k].version : k \in 1..Len(useWebR.results)} :
                                 \E k \in 1..Len(useWebR.results) :
                                    useWebR.results[k].name = p /\ useWebR.results[k].version = v)
                         ELSE @[p]]]
  /\ UNCHANGED <<faults, packages, code, lastExecutedCode, showConsole, currentCsvData, calls, pipeline, globalEnv, reserved, clock, messages, isExecuting, pc, req, tasks, outcome, failedRemovals, instance>>

PackageNext ==
  \/ \E p \in PackageNames : install(p)
  \/ \E c \in 1..MaxInstalls : install_installPackages(c)
  \/ \E c \in 1..MaxInstalls : install_getVersion(c)
  \/ \E c \in 1..MaxInstalls : install_settled(c)
  \/ \E p \in PackageNames : isInstalled(p)
  \/ \E p \in PackageNames : removeFromTracking(p)
  \/ clearTracking
  \/ initializeWebR_installEssentials
  \/ installMultiple_install
  \/ installMultiple_push
  \/ initializeWebR_update

(* ------------------ App.vue: what triggers executeCode ----------------- *)
\* the texts the editor can hold, and the code of the selected example
Codes == {"c1", "c2"}
ExampleCode == "ex"

\* the call that appended a message: its number is the last word of the content
IdOf(m) == CHOOSE i \in 1..(MaxCalls + 1) : ToString(i) = m.content[Len(m.content)]

\* a number for a new call, larger than that of every call in flight or on the log
FreshId(inFlight) ==
  LET used == {inFlight[i].id : i \in 1..Len(inFlight)}
                \cup {IdOf(messages[i]) : i \in 1..Len(messages)} \cup {0}
  IN 1 + (CHOOSE i \in used : \A j \in used : j <= i)

\* useWebR.executeCode(text) up to await executor.execute(code): isExecuting is set and
\* the call is in flight; there is no test of isExecuting before it
executeCode_start(inFlight, trigger, text) ==
  Append(inFlight, [trigger |-> trigger, code |-> text, id |-> FreshId(inFlight)])

\* what executor.execute can hand back to call id: a message or none, a plot or none
CallResults(id) ==
  { [outputs |-> o, plots |-> p] :
      o \in {<<>>, <<[type |-> "stdout", content |-> <<ToString(id)>>]>>},
      p \in {<<>>, <<imageToDataUrl(ToString(id))>>} }

\* ConsoleOutput.autoOpenConsole
autoOpenConsole(log, shown) ==
  LET hasPlots == \E i \in 1..Len(log) : log[i].type = "plot"
  IN IF ~hasPlots /\ Len(log) > 0 THEN TRUE ELSE shown

\* the editor, v-model="code"
CodeEditor_input ==
  /\ \E text \in Codes \ {code} : code' = text
  /\ UNCHANGED <<packages, useWebR, instance, lastExecutedCode, showConsole, currentCsvData, calls, pipeline, globalEnv, reserved, clock, faults, messages, isExecuting, pc, req, tasks, outcome, failedRemovals>>

\* ConsoleOutput.toggleConsole
toggleConsole ==
  /\ showConsole' = ~showConsole
  /\ UNCHANGED <<packages, useWebR, instance, code, lastExecutedCode, currentCsvData, calls, pipeline, globalEnv, reserved, clock, faults, messages, isExecuting, pc, req, tasks, outcome, failedRemovals>>

\* App.vue handleFileUpload: currentCsvData.value = csvData; await uploadCsvData(csvData)
handleFileUpload ==
  /\ ~currentCsvData
  /\ currentCsvData' = TRUE
  /\ UNCHANGED <<packages, useWebR, instance, code, lastExecutedCode, showConsole, calls, pipeline, globalEnv, reserved, clock, faults, messages, isExecuting, pc, req, tasks, outcome, failedRemovals>>

\* App.vue handleFileRemoved (the remove button of FileUpload is there while a file is
\* shown): currentCsvData.value = null; void executeCode('if (exists("data")) rm(data)')
handleFileRemoved ==
  /\ currentCsvData
  /\ Len(calls) < MaxCalls
  /\ FreshId(calls) <= MaxCalls + 1
  /\ currentCsvData' = FALSE
  /\ calls' = executeCode_start(calls, "removal", "rm")
  /\ isExecuting' = TRUE
  /\ UNCHANGED <<packages, useWebR, instance, code, lastExecutedCode, showConsole, pipeline, globalEnv, reserved, clock, faults, messages, pc, req, tasks, outcome, failedRemovals>>

\* App.vue handleExampleSelect, an example with a csvUrl: code.value = example.code; the
\* file is fetched and uploaded, then clearConsoleMessages() and
\* executeCode(example.code); a failed fetch leaves the rest as it was
handleExampleSelect_csvUrl ==
  /\ Len(calls) < MaxCalls
  /\ FreshId(calls) <= MaxCalls + 1
  /\ code' = ExampleCode
  /\ \E ok \in BOOLEAN :
       IF ok
       THEN /\ currentCsvData' = TRUE
            /\ messages' = clearConsoleMessages(messages)
            /\ calls' = executeCode_start(calls, "example", ExampleCode)
            /\ isExecuting' = TRUE
       ELSE UNCHANGED <<currentCsvData, messages, calls, isExecuting>>
  /\ UNCHANGED <<packages, useWebR, instance, lastExecutedCode, showConsole, pipeline, globalEnv, reserved, clock, faults, pc, req, tasks, outcome, failedRemovals>>

\* App.vue handleExampleSelect, an example without csvUrl: code.value = example.code;
\* if (currentCsvData.value) handleFileRemoved(); then clearConsoleMessages() and
\* executeCode(example.code)
handleExampleSelect ==
  /\ Len(calls) + (IF currentCsvData THEN 2 ELSE 1) <= MaxCalls
  /\ FreshId(calls) + (IF currentCsvData THEN 1 ELSE 0) <= MaxCalls + 1
  /\ code' = ExampleCode
  /\ currentCsvData' = FALSE
  /\ messages' = clearConsoleMessages(messages)
  /\ calls' = executeCode_start(IF currentCsvData
                                THEN executeCode_start(calls, "removal", "rm")
                                ELSE calls, "example", ExampleCode)
  /\ isExecuting' = TRUE
  /\ UNCHANGED <<packages, useWebR, instance, lastExecutedCode, showConsole, pipeline, globalEnv, reserved, clock, faults, pc, req, tasks, outcome, failedRemovals>>

\* the Run button, :disabled="!isReady || isLoading", @click="runCode": runCode up to
\* await executeCode(code.value)
RunButton_click ==
  /\ ~isExecuting
  /\ Len(calls) < MaxCalls
  /\ FreshId(calls) <= MaxCalls + 1
  /\ messages' = clearConsoleMessages(messages)
  /\ calls' = executeCode_start(calls, "run", code)
  /\ isExecuting' = TRUE
  /\ UNCHANGED <<packages, useWebR, instance, code, lastExecutedCode, showConsole, currentCsvData, pipeline, globalEnv, reserved, clock, faults, pc, req, tasks, outcome, failedRemovals>>

\* useWebR.executeCode, call i: executor.execute returned, its messages are pushed, and
\* the finally block resets isExecuting; then the handler that awaited the call goes on:
\* lastExecutedCode.value = code.value (runCode) or example.code (handleExampleSelect),
\* and consoleRef.value?.autoOpenConsole()
executeCode_finally(i) ==
  /\ i \in 1..Len(calls)
  /\ \E result \in CallResults(calls[i].id) :
       LET log == executeCode_append(messages, result, <<>>)
       IN /\ Len(log) <= MaxLog + 2
          /\ messages' = log
          /\ IF calls[i].trigger = "removal"
             THEN UNCHANGED <<lastExecutedCode, showConsole>>
             ELSE /\ lastExecutedCode' = IF calls[i].trigger = "run" THEN code
                                         ELSE calls[i].code
                  /\ showConsole' = autoOpenConsole(log, showConsole)
  /\ calls' = [j \in 1..(Len(calls) - 1) |-> IF j < i THEN calls[j] ELSE calls[j + 1]]
  /\ isExecuting' = FALSE
  /\ UNCHANGED <<packages, useWebR, instance, code, currentCsvData, pipeline, globalEnv, reserved, clock, faults, pc, req, tasks, outcome, failedRemovals>>

AppNext ==
  \/ CodeEditor_input
  \/ toggleConsole
  \/ handleFileUpload
  \/ handleFileRemoved
  \/ handleExampleSelect_csvUrl
  \/ handleExampleSelect
  \/ RunButton_click
  \/ \E i \in 1..MaxCalls : executeCode_finally(i)
  \/ clearMessages

AppInit == Init /\ pipeline = "executor"

Next ==
  \/ serialize
  \/ serializeWithOptions
  \/ summarize
  \/ structure
  \/ \E t \in TaskIds : serialize_bind(t)
  \/ \E t \in TaskIds : serialize_evalR(t)
  \/ \E t \in TaskIds : cleanupTempVar(t)
  \/ \E t \in TaskIds : extractContent_toJs(t)
  \/ \E t \in TaskIds : extractConditionMessage_bind(t)
  \/ \E t \in TaskIds : extractConditionMessage_evalR(t)
  \/ \E t \in TaskIds : extractConditionMessage_rm(t)
  \/ runCode
  \/ execute_options
  \/ execute_captureR
  \/ execute_captureR_throws
  \/ execute_processed
  \/ processResult_type
  \/ isPlotObject_bind
  \/ isPlotObject_evalR
  \/ isPlotObject_rm
  \/ executeCode_resume
  \/ executeWrapped
  \/ wrapped_options
  \/ wrapped_captureR
  \/ wrapped_extractContent
  \/ createSerializeFunction_bind
  \/ createSerializeFunction_evalR
  \/ createSerializeFunction_fallback
  \/ createSerializeFunction_rm
  \/ wrapped_images
  \/ wrapped_type
  \/ wrapped_resultCheck
  \/ wrapped_print
  \/ wrapped_extractEnhanced
  \/ cleanupErrorHandlingVariables
  \/ clearMessages

Spec == Init /\ [][Next]_vars

\* the steps of the Executor path: App.vue runCode, useWebR.executeCode,
\* Executor.execute and the OutputProcessor and Serializer calls it awaits
ExecutorNext ==
  \/ runCode
  \/ execute_options
  \/ execute_captureR
  \/ execute_captureR_throws
  \/ \E t \in TaskIds : extractContent_toJs(t)
  \/ \E t \in TaskIds : extractConditionMessage_bind(t)
  \/ \E t \in TaskIds : extractConditionMessage_evalR(t)
  \/ \E t \in TaskIds : extractConditionMessage_rm(t)
  \/ \E t \in TaskIds : serialize_bind(t)
  \/ \E t \in TaskIds : serialize_evalR(t)
  \/ \E t \in TaskIds : cleanupTempVar(t)
  \/ execute_processed
  \/ processResult_type
  \/ isPlotObject_bind
  \/ isPlotObject_evalR
  \/ isPlotObject_rm
  \/ executeCode_resume
  \/ clearMessages

\* the Executor path when every interpreter call that was made returns or throws: a
\* step of the request in flight is taken whenever one can be taken; nothing obliges the
\* user to run code or to clear the log
ExecutorLiveSpec ==
  AppInit /\ [][ExecutorNext]_vars /\ WF_vars(pc # "idle" /\ ExecutorNext)

\* the application around the session: the triggers of executeCode and its calls
AppSpec == AppInit /\ [][AppNext]_vars

\* one PackageManager, and initializeWebR installing the essential packages with it
PackageSpec == AppInit /\ [][PackageNext]_vars

\* the life of one WebRInstance
InstanceSpec == AppInit /\ [][InstanceNext]_vars

\* the two classifiers applied to signals of every kind
ClassifierSpec == ClassifierInit /\ [][ClassifierNext]_vars

(* ------------------------------ properties ----------------------------- *)
Categories == {"stdout", "stderr", "info", "warning", "error", "plot"}

\* the category the Condition Classifier gives to a kind of signal
CategoryOf(kind) ==
  CASE kind = "stdout" -> "stdout"
    [] kind = "stderr" -> "stderr"
    [] kind = "warning" -> "warning"
    [] kind = "error" -> "error"
    [] OTHER -> "info"

\* the messages the latest request appended to the session log
Appended == SubSeq(messages, req.base + 1, Len(messages))

\* the latest request has returned to the application
Finished == pc = "idle" /\ outcome.status = "returned"

\* a text with one leading "M: " removed
StripOne(text) == IF text # <<>> /\ Head(text) = InternalPrefix THEN Tail(text) ELSE text

WarningsRaised == {i \in 1..Len(req.raised) : req.raised[i].type = "warning"}

\* C1: Executor.execute never throws to its caller: whatever the interpreter calls do,
\* the call resolves to an outcome {outputs, plots, duration, success}.
C1_ExecuteAlwaysReturnsOutcome ==
  pipeline = "executor" =>
    /\ outcome.status \in {"none", "returned"}
    /\ pc = "returned" =>
         /\ outcome.status = "returned"
         /\ outcome.success \in BOOLEAN
         /\ outcome.duration \in Nat
         /\ \A i \in 1..Len(outcome.outputs) : outcome.outputs[i].type \in Categories
         /\ Len(outcome.plots) \in Nat

\* the capture returned, a later interpreter call threw, and execute returned all the same
C1_Witness ==
  /\ pipeline = "executor"
  /\ pc = "returned"
  /\ req.captured = "ok"
  /\ faults > 0
  /\ outcome.status = "returned"

\* C2: when the capture call or the option-setting call throws, the outcome has
\* success = false, no plots and exactly one message, of category error, whose text is
\* the thrown text with one leading "M: " removed.
C2_FailedPath ==
  (pipeline = "executor" /\ pc = "returned" /\ req.captured \in {"threw", "not called"}) =>
    /\ outcome.success = FALSE
    /\ outcome.plots = <<>>
    /\ Len(outcome.outputs) = 1
    /\ outcome.outputs[1].type = "error"
    /\ outcome.outputs[1].content = StripOne(req.thrown)

\* the capture call threw a text that starts with two prefixes, and one is left
C2_Witness ==
  /\ pipeline = "executor"
  /\ pc = "returned"
  /\ req.captured = "threw"
  /\ req.thrown = <<InternalPrefix, InternalPrefix, "F1">>
  /\ outcome.outputs = <<[type |-> "error", content |-> <<InternalPrefix, "F1">>]>>

C4_SignalsInCaptureOrder ==
  (pipeline = "executor" /\ pc = "returned" /\ req.captured = "ok" /\ outcome.success) =>
    LET n == Len(req.signals)
    IN /\ Len(outcome.outputs) = n + Len(req.final)
       /\ \A i \in 1..n :
            /\ outcome.outputs[i].type = CategoryOf(req.signals[i].type)
            /\ req.signals[i].tag = "string" => outcome.outputs[i].content = <<req.signals[i].v>>
            /\ req.signals[i].tag = "absent" => outcome.outputs[i].content = <<>>

\* the extraction of the second signal completed before that of the first
C4_Witness ==
  /\ pipeline = "executor"
  /\ pc = "returned"
  /\ req.captured = "ok"
  /\ outcome.success
  /\ Len(req.signals) = 2
  /\ req.signals[1].tag = "object"
  /\ req.signals[2].tag = "string"
  /\ outcome.outputs[2].content = <<req.signals[2].v>>

\* C5: for code that raises one warning and then an error, the one error message
\* displayed at the end holds the error's message and the warning's message, whatever
\* the text and the length of the raw error thrown by the capture call.
C5_WarningPreserved ==
  (/\ Finished
   /\ faults = 0
   /\ req.captured = "threw"
   /\ req.err = "e1"
   /\ Len(req.raised) = 1
   /\ req.raised[1].type = "warning") =>
    /\ Len(Appended) = 1
    /\ Appended[1].type = "error"
    /\ Contains(Appended[1].content, ConditionMessage(req.err))
    /\ Contains(Appended[1].content, ConditionMessage(req.raised[1].v))

\* C6: for code that raises a warning and no error, the wrapped evaluation does not
\* suppress the warning: every warning raised has its message of category warning.
C6_WarningNotSuppressed ==
  (pipeline = "wrapped" /\ Finished /\ req.captured = "ok") =>
    Cardinality({i \in 1..Len(Appended) : Appended[i].type = "warning"})
      = Cardinality(WarningsRaised)

\* a warning was raised, recorded in the accumulator, and displayed
C6_Witness ==
  /\ pipeline = "wrapped"
  /\ Finished
  /\ req.captured = "ok"
  /\ WarningsRaised # {}
  /\ reserved.warnings.val = <<"W1">>
  /\ \E i \in 1..Len(Appended) : Appended[i] = [type |-> "warning", content |-> <<"W1">>]

\* C7: when a Serializer method returns or throws, whether the print capture succeeded
\* or failed, .__serializer_temp__ is not bound, provided the removal command succeeded.
C7_SerializerTempRemoved ==
  [][\A t \in TaskIds :
       (/\ tasks[t].pc = "ser_cleanup"
        /\ tasks'[t].pc # "ser_cleanup"
        /\ "serializer" \notin failedRemovals') => globalEnv'[SerializerTemp] = Unbound]_vars

\* a Serializer method threw because the print capture failed, and the name is gone
C7_Witness ==
  /\ pipeline = "serializer"
  /\ pc = "idle"
  /\ outcome.status = "threw"
  /\ faults = 0
  /\ failedRemovals = {}
  /\ globalEnv[SerializerTemp] = Unbound

\* C8: after the condition-message extraction, the plot-class check or the composable's
\* serialize function returns, on success and on a failure of the evaluation made
\* between bind and removal, none of the temporary names they bound is still bound.
C8_NoTemporaryLeft ==
  (Finished /\ failedRemovals \cap {"condition", "plotcheck", "tempobj", "tempobj toJs"} = {}) =>
    /\ \A ts \in 1..MaxClock : globalEnv[ConditionTemp(ts)] = Unbound
    /\ globalEnv[CheckPlot] = Unbound
    /\ globalEnv[TempObj] = Unbound

\* C9: after every evaluation run through the wrapped path, successful or failed, neither
\* reserved global of the wrapper is bound, provided the removal command succeeded.
C9_ReservedRemoved ==
  (pipeline = "wrapped" /\ Finished /\ "reserved" \notin failedRemovals) =>
    /\ ~reserved.warnings.bound
    /\ ~reserved.complete.bound

\* C10: in every outcome returned by Executor.execute, success is false if and only if
\* the outputs hold a message of category error.
C10_SuccessIffNoError ==
  (pipeline = "executor" /\ pc = "returned") =>
    (outcome.success = FALSE
       <=> \E i \in 1..Len(outcome.outputs) : outcome.outputs[i].type = "error")

\* C11: at most one executeCode call is in flight at any time.
C11_AtMostOneInFlight == Len(calls) <= 1

\* C12: code that only produces a visible one-line final value (1 + 1) gives an outcome
\* with exactly one message, the stdout message of the printed line, and success true.
C12_VisibleValueShownOnce ==
  (/\ Finished
   /\ pipeline = "executor"
   /\ faults = 0
   /\ req.captured = "ok"
   /\ req.signals = <<AutoprintLine("num")>>
   /\ req.images = <<>>
   /\ req.result = "num"
   /\ req.visible)
  => /\ outcome.success
     /\ outcome.outputs = <<[type |-> "stdout", content |-> PrintLines("num").lines]>>

\* C13: a successful execution whose final value is invisible appends no stdout message
\* for the final value.
C13_InvisibleValueNotShown ==
  (/\ Finished
   /\ pipeline = "executor"
   /\ faults = 0
   /\ outcome.success
   /\ req.result # NoObj
   /\ ~req.visible)
  => req.final = <<>>

\* C14: a final value of a recognized plot class never gets a final-value stdout
\* message, whatever the bind, the class test and the removal of the check do.
C14_PlotValueNeverPrinted ==
  (Finished /\ pipeline = "executor" /\ InheritsPlot(req.result)) => req.final = <<>>

\* C15: a final value whose printed output is empty or only whitespace gets no
\* final-value stdout message.
C15_BlankPrintNotShown ==
  (/\ Finished
   /\ pipeline = "executor"
   /\ faults = 0
   /\ req.result # NoObj
   /\ PrintLines(req.result).ok
   /\ ~TrimNonEmpty(toCharacterVector(PrintLines(req.result).lines)))
  => req.final = <<>>

\* C16: a Serializer method called by the application never throws: whatever the bind
\* and the print capture do, the call returns a text.
C16_SerializerNeverThrows ==
  (pipeline = "serializer" /\ pc = "idle" /\ outcome.status # "none")
  => outcome.status = "returned"

\* C17: extraction never raises and never aborts the batch: every signal of the batch
\* gets a text; a signal whose every conversion attempt failed gets the placeholder
\* "[Unable to display output]", and the other signals of the batch get their messages.
C17_ExtractionNeverAborts ==
  /\ pc = "processMultiple" =>
       \A t \in 1..Len(req.signals) :
         tasks[t].pc = "done" =>
           LET sig == req.signals[t]
           IN /\ sig.tag = "string" => tasks[t].content = <<sig.v>>
              /\ sig.tag = "absent" => tasks[t].content = <<>>
              /\ sig.tag = "object" => tasks[t].content # <<>>
              /\ tasks[t].failed => tasks[t].content = <<UnableToDisplay>>
  /\ (/\ pipeline = "executor"
      /\ req.captured = "ok"
      /\ pc \notin {"capture", "processMultiple"}
      /\ req.thrown = <<>>)
     => /\ Len(req.outputs) = Len(req.signals)
        /\ \A i \in 1..Len(req.signals) :
             /\ req.outputs[i].type = mapOutputType(req.signals[i].type)
             /\ req.signals[i].tag = "string" => req.outputs[i].content = <<req.signals[i].v>>

\* one signal of a batch of two could not be converted, the other got its message
C17_Witness ==
  /\ pipeline = "executor"
  /\ pc = "returned"
  /\ outcome.success
  /\ Len(req.signals) = 2
  /\ req.signals[1].tag = "object"
  /\ req.outputs[1].content = <<UnableToDisplay>>
  /\ req.outputs[2] = [type |-> "stdout", content |-> <<"O1">>]

\* C18: a removal that fails does not change the result computed before it: the
\* extracted condition message, the verdict of the plot-class test, the printed text.
C18_RemovalFailureKeepsResult ==
  [][/\ \A t \in Extractions :
          (/\ tasks[t].pc = "cond_rm"
           /\ tasks'[t].pc # "cond_rm"
           /\ "condition" \in failedRemovals')
          => /\ tasks'[t].pc = "done"
             /\ tasks'[t].content = toCharacterVector(tasks[t].val)
     /\ (/\ pc = "plot_rm"
         /\ pc' # "plot_rm"
         /\ "plotcheck" \in failedRemovals'
         /\ req.verdict)
        => /\ pc' = "returned"
           /\ outcome'.outputs = req.outputs
     /\ \A t \in TaskIds :
          (/\ tasks[t].pc = "ser_cleanup"
           /\ tasks'[t].pc # "ser_cleanup"
           /\ "serializer" \in failedRemovals'
           /\ ~tasks[t].failed)
          => CASE tasks[t].ctx = "direct" ->
                    outcome'.status = "returned" /\ req'.serialized = tasks[t].val
               [] tasks[t].ctx = "extract" -> tasks'[t].content = tasks[t].val
               [] OTHER -> req'.final = processResult_message(
                                          [status |-> "returned", text |-> tasks[t].val])
    ]_vars

\* C19: the combined message stored by the wrapper's error branch is the error's message,
\* then the separator, then the accumulated warnings joined by newline, and nothing
\* else; with no accumulated warning it is the error's message alone.
C19_CombinedMessageExact ==
  (pipeline = "wrapped" /\ pc = "w_enhance" /\ req.err # NoObj)
  => /\ reserved.complete.bound
     /\ reserved.complete.val =
          IF CollectedWarnings(req.raised) = <<>> THEN <<ConditionMessage(req.err)>>
          ELSE <<ConditionMessage(req.err), WarningSeparator>>
                 \o Join(CollectedWarnings(req.raised), NL)

\* C20: for code that raises warning W1 and then error E1, the failed evaluation shows
\* a message of category warning containing W1 and exactly one message of category
\* error, and the success flag is false.
C20_WarningThenError ==
  (/\ Finished
   /\ faults = 0
   /\ req.err = "e1"
   /\ CollectedWarnings(req.raised) = <<"W1">>)
  => /\ \E i \in 1..Len(Appended) :
          Appended[i].type = "warning" /\ Contains(Appended[i].content, "W1")
     /\ Cardinality({i \in 1..Len(Appended) : Appended[i].type = "error"}) = 1
     /\ pipeline = "executor" => ~outcome.success

\* C21: the classifier is total with a default: stdout, stderr, message, warning, error
\* map to stdout, stderr, info, warning, error, and every other kind (names such as
\* constructor or toString included) and an absent kind map to info.
C21_ClassifierTotal ==
  pipeline = "classifier" =>
    \A i \in 1..Len(messages) : messages[i].type = CategoryOf(req.signals[i].type)

\* C22: the error text reported for a failed evaluation of the wrapped path is built
\* from that evaluation's own error and warnings only (its thrown error, or the combined
\* message of its own error branch), never from text stored by an earlier evaluation.
C22_ErrorTextOfThisEvaluation ==
  (/\ pipeline = "wrapped"
   /\ pc \in {"w_cleanup", "idle"}
   /\ req.captured \in {"threw", "not called"})
  => \/ req.serialized = stripInternalPrefix(req.thrown)
     \/ /\ req.err # NoObj
        /\ req.serialized = CompleteError(req.err, CollectedWarnings(req.raised))

OwnTexts(o) ==
  {<<UnableToDisplay>>, <<UnableToExtract>>, <<NotSerialized>>}
    \cup (IF ToJs(o).kind = "character" THEN {toCharacterVector(ToJs(o).values)} ELSE {})
    \cup (IF ConditionBranch(o).ok THEN {toCharacterVector(ConditionBranch(o).lines)} ELSE {})
    \cup (IF PrintLines(o).ok THEN {toCharacterVector(PrintLines(o).lines)} ELSE {})

\* C24: within one evaluation, the text of every message is that of its own signal's
\* object, although processMultiple starts the extractions concurrently.
C24_ExtractionsDoNotInterfere ==
  (pc = "processMultiple" /\ faults = 0)
  => \A t \in 1..Len(req.signals) :
       (tasks[t].pc = "done" /\ req.signals[t].tag = "object")
       => tasks[t].content \in OwnTexts(req.signals[t].v)

\* C25: condition-message extraction writes to no binding of the global workspace but
\* its own temporary name: the user's variable obj is the same after each of its steps.
C25_ExtractionLeavesUserVariables ==
  [][\A t \in Extractions :
       (tasks[t].pc \in {"cond_bind", "cond_eval", "cond_rm"} /\ tasks'[t] # tasks[t])
       => globalEnv'[UserObj] = globalEnv[UserObj]]_vars

\* C26: whenever at least one executeCode call is in flight, isExecuting is true.
C26_LoadingWhileInFlight == Len(calls) >= 1 => isExecuting

\* C27: the messages one executeCode call appends form one contiguous block of the log,
\* outputs before plots, however the calls overlap.
C27_MessagesContiguous ==
  /\ \A i, j, k \in 1..Len(messages) :
       (i < j /\ j < k /\ IdOf(messages[i]) = IdOf(messages[k]))
       => IdOf(messages[j]) = IdOf(messages[i])
  /\ \A i, j \in 1..Len(messages) :
       (i < j /\ IdOf(messages[i]) = IdOf(messages[j]))
       => ~(messages[i].type = "plot" /\ messages[j].type # "plot")

\* call 2 started after call 1 and returned first, with a message and a plot; call 1,
\* which was in flight all the while, then appended its own message
C27_Witness ==
  /\ Len(messages) = 3
  /\ IdOf(messages[1]) = 2 /\ messages[1].type = "stdout"
  /\ IdOf(messages[2]) = 2 /\ messages[2].type = "plot"
  /\ IdOf(messages[3]) = 1 /\ messages[3].type = "stdout"

\* C28: when runCode completes, if its run generated no plot and the log holds at least
\* one message (here: one of this run), the console is shown, whatever the earlier runs
\* left on the log.
C28_ConsoleShownWithoutPlot ==
  [][\A i \in 1..Len(calls) :
       (/\ calls[i].trigger = "run"
        /\ executeCode_finally(i)
        /\ \A k \in 1..Len(messages') :
             messages'[k].type = "plot" => IdOf(messages'[k]) # calls[i].id
        /\ \E k \in 1..Len(messages') : IdOf(messages'[k]) = calls[i].id)
       => showConsole']_vars

\* C29: when runCode completes, lastExecutedCode is the text that was passed to
\* executeCode, even when the editor was changed while the execution was in flight.
C29_LastExecutedIsWhatRan ==
  [][\A i \in 1..Len(calls) :
       (calls[i].trigger = "run" /\ executeCode_finally(i))
       => lastExecutedCode' = calls[i].code]_vars

\* C30: whenever an initialize call resolves, isReady is true: the interpreter and the
\* shelter are both present.
C30_ResolvedMeansReady ==
  [][\A c \in 1..MaxInits :
       (instance.initialize[c] # "resolved" /\ instance'.initialize[c] = "resolved")
       => (instance'.webR /\ instance'.shelter)]_vars

\* C31: every package that has a recorded version is also in the installed set.
C31_VersionsWithinInstalled ==
  \A p \in PackageNames : packages.versions[p] # "" => p \in packages.installed

\* C32: when initializeWebR has updated the reactive state, every package in
\* installedLibraries is one whose installation succeeded.
C32_InstalledLibrariesSucceeded ==
  useWebR.pc = "ready" =>
    \A p \in useWebR.installedPackages :
       \E k \in 1..Len(useWebR.results) :
          useWebR.results[k].name = p /\ useWebR.results[k].version # "failed"

\* C33: every executeCode call eventually completes, and when no execution is in flight
\* isExecuting is false, after a successful and after a failed execution.
C33_ExecuteCodeCompletes ==
  /\ (pc # "idle") ~> (pc = "idle")
  /\ [](pc = "idle" => ~isExecuting)

\* an execution has failed (the capture call threw) and its executeCode call has completed
C33_Witness ==
  /\ pc = "idle"
  /\ req.captured = "threw"
  /\ outcome.status = "returned" /\ ~outcome.success
  /\ ~isExecuting

C35_LinesJoinedByNewline ==
  \A i \in 1..Len(req.signals) :
     (faults = 0 /\ req.signals[i].tag = "object" /\ ToJs(req.signals[i].v).kind = "character")
     => /\ (pipeline = "executor" /\ Len(req.outputs) >= i)
             => req.outputs[i].content = Join(ToJs(req.signals[i].v).values, NL)
        /\ (pipeline = "wrapped" /\ req.i > i)
             => messages[req.base + i].content = Join(ToJs(req.signals[i].v).values, NL)

====
